---- MODULE Spec2Model ----
(***************************************************************************)
(* A model of the crawl / analyse / publish orchestration:                 *)
(*   crawler.py        crawl_website   (the BFS frontier)                  *)
(*   utils/SupabaseClient.py           (the page store)                    *)
(*   analyzer.py       get_cache_key, get_cached_result, cache_result      *)
(*   analyzer.py       analyze_page    (its use of the cache)              *)
(*   main.py           process_website (the per-URL pipeline)              *)
(*   repo_integrator.py  integrate_with_repo (the temporary clone)         *)
(*   api.py            start_crawl     (POST /crawl)                       *)
(***************************************************************************)
EXTENDS Integers, Sequences, FiniteSets, TLC

(***************************************************************************)
(* URLs.  A URL string is modelled by the sequence of its '/'-separated    *)
(* pieces: "https://x.test/a" is <<"https:", "", "x.test", "a">>.          *)
(***************************************************************************)
UrlRoot == <<"https:", "", "x.test", "">>
UrlA == <<"https:", "", "x.test", "a">>
UrlB == <<"https:", "", "x.test", "b">>
UrlC == <<"https:", "", "x.test", "c">>
UrlExt == <<"https:", "", "y.test", "">>

\* The pages of the site under crawl, and every href a page may carry.
Pages == {UrlRoot, UrlA, UrlB, UrlC}
Hrefs == Pages \cup {UrlExt}

\* The one run of crawl_website / process_website the model follows.
Runs == {1}

\* Bound: the total number of links on all pages of the site.
MaxSiteLinks == 3

\* urlparse(url).netloc: the piece between "//" and the next "/".
Netloc(url) == IF Len(url) >= 3 /\ url[2] = "" THEN url[3] ELSE ""

NoUrl == <<>>

\* A value that may be Python's None.
None == [none |-> TRUE]
Some(value) == [none |-> FALSE, value |-> value]

SeqToSet(s) == {s[i] : i \in DOMAIN s}

RECURSIVE SelectOf(_, _)
\* The hrefs of the edges of `edges` that leave `url`, in document order.
SelectOf(edges, url) ==
    IF edges = <<>> THEN <<>>
    ELSE IF Head(edges)[1] = url
         THEN <<Head(edges)[2]>> \o SelectOf(Tail(edges), url)
         ELSE SelectOf(Tail(edges), url)

\* The order in which the site's pages are named: the root first.
PageIndex(url) ==
    CASE url = UrlRoot -> 0
      [] url = UrlA -> 1
      [] url = UrlB -> 2
      [] url = UrlC -> 3
      [] OTHER -> 0

Max(a, b) == IF a >= b THEN a ELSE b

RECURSIVE LastNamed(_)
\* The highest page index among the hrefs of `edges` (0: only the root).
LastNamed(edges) ==
    IF edges = <<>> THEN 0
    ELSE Max(PageIndex(Head(edges)[2]), LastNamed(Tail(edges)))

\* The edges that may follow `edges`: the site's links are listed page by
\* page (the root's first), each page's in document order, and the pages
\* are named in the order in which a link first leads to them (UrlA, then
\* UrlB, then UrlC), which fixes one site out of those that differ only in
\* the names of their pages.
NextEdges(edges) ==
    {e \in Pages \X Hrefs :
        /\ edges # <<>> => PageIndex(edges[Len(edges)][1]) <= PageIndex(e[1])
        /\ PageIndex(e[2]) <= LastNamed(edges) + 1}

RECURSIVE EdgeSeqs(_)
EdgeSeqs(n) ==
    IF n = 0 THEN {<<>>}
    ELSE LET shorter == EdgeSeqs(n - 1)
         IN shorter \cup
            UNION {{Append(s, e) : e \in NextEdges(s)} :
                     s \in {t \in shorter : Len(t) = n - 1}}

RECURSIVE ReachableVia(_, _)
\* The least set that holds `found` and is closed under the site's links.
ReachableVia(edges, found) ==
    LET more == found \cup {e[2] : e \in {x \in SeqToSet(edges) : x[1] \in found}}
    IN IF more = found THEN found ELSE ReachableVia(edges, more)

\* The sites considered: every link sits on a page that can be reached from
\* the root (the links of a page nobody can reach are never seen).
Sites ==
    {s \in EdgeSeqs(MaxSiteLinks) :
        \A i \in 1..Len(s) : s[i][1] \in ReachableVia(s, {UrlRoot})}

VARIABLES
    site,           \* the web site: its links (what crawler.arun finds)
    blank_pages,    \* the pages of the site whose html is the empty string
    pages_db,       \* the rows of the 'pages' table, in insertion order
    start_url,      \* [run -> the start URL]
    pc,             \* [run -> control position]
    visited,        \* [run -> set of URLs]
    to_crawl,       \* [run -> queue of URLs]
    crawled_pages,  \* [run -> list of URLs fetched and stored]
    cur,            \* [run -> the URL whose arun is awaited]
    todo,           \* [run -> what is left of main.py's crawled_urls]
    files_to_add,   \* [run -> the artifact map: path -> the URL it is of]
    trace,          \* the calls made so far, oldest first
    now,            \* the clock datetime.now() reads, in hours
    cache_files,    \* [cache key -> the text of CACHE_DIR/<key>.json, or None]
    got,            \* the get_cached_result call just made, if one was
    last_put,       \* [cache key -> the last cache_result call, if it succeeded]
    analysis,       \* the analyze_page call just made, if one was
    analysed,       \* [(url, html) -> the last call that computed a result]
    response,       \* [run -> what POST /crawl answered, if it was asked]
    test_cases,     \* the test cases of one analysis result (main.py:66-78)
    publish,        \* the integrate_with_repo call under way, if one is
    listing         \* the file test_cases.json of the output directory

crawlVars == <<visited, to_crawl, crawled_pages, cur>>
runVars == <<todo, files_to_add>>
sideVars == <<response, test_cases, publish, listing>>
cacheVars == <<now, cache_files, got, last_put, analysis, analysed, sideVars>>
siteVars == <<site, blank_pages, pages_db, start_url, pc, visited, to_crawl, crawled_pages,
              cur, todo, files_to_add, trace, sideVars>>

vars == <<site, blank_pages, pages_db, start_url, pc, visited, to_crawl,
          crawled_pages, cur, todo, files_to_add, trace, now, cache_files, got,
          last_put, analysis, analysed, response, test_cases, publish, listing>>

(***************************************************************************)
(* The result cache (analyzer.py:17-65).  Strings are sequences of         *)
(* characters here, since the key is made of a concatenation.              *)
(***************************************************************************)
\* analyzer.py:19, CACHE_DURATION = timedelta(hours=24), in hours.
CACHE_DURATION == 24

\* Bounds: the clock advances by TickHours at a time and stops at MaxClock.
TickHours == 12
MaxClock == 36

CacheUrls == {<<"u">>, <<"u", "h">>}
CacheHtmls == {<<"h">>, <<"h", "h">>}

\* The analysis results that are cached: JSON objects.
Payloads ==
    {[testCases |-> <<"tc1">>, pomCode |-> "pom1"],
     [testCases |-> <<"tc2">>, pomCode |-> "pom2"]}

\* hashlib.sha256(...).hexdigest(), taken to be injective.
Sha256(content) == <<"sha256", content>>

\* The key made of the url alone.
get_cache_key_of_url(url, html) == Sha256(url)

\* analyzer.py:27-30.
get_cache_key(url, html) == Sha256(url \o html)

CacheKeys == {get_cache_key(u, h) : u \in CacheUrls, h \in CacheHtmls}

\* datetime.isoformat and datetime.fromisoformat.
IsoFormat(time) == <<"iso", time>>
FromIsoFormat(text) == text[2]

\* json.dump and json.load of a JSON object; a file cut short does not load.
JsonDump(data) == <<"json", data>>
CutShort == <<"cut">>
JsonLoads(text) == text[1] = "json"
JsonLoad(text) == text[2]

\* The comparison turned round: young entries expire.
ExpiredWhenYoung(age) == age < CACHE_DURATION

\* analyzer.py:44, the age (in hours) at which an entry is expired.
Expired(age) == age > CACHE_DURATION

\* analyzer.py:33-51, the value get_cached_result returns.
CachedValue(file, time) ==
    IF file = None THEN None
    ELSE IF ~JsonLoads(file.value) THEN None
    ELSE LET cached_data == JsonLoad(file.value)
             cached_time == FromIsoFormat(cached_data.timestamp)
         IN IF Expired(time - cached_time) THEN None
            ELSE Some(cached_data.result)

\* The unlink left out: an expired file stays.
FileAfterGetKeeps(file, time) == file

\* analyzer.py:44-46, the file get_cached_result leaves behind.
FileAfterGet(file, time) ==
    IF file # None /\ JsonLoads(file.value)
       /\ Expired(time - FromIsoFormat(JsonLoad(file.value).timestamp))
    THEN None
    ELSE file

\* analyzer.py:54-65, the file cache_result leaves behind: written whole,
\* untouched when it cannot be opened, cut short when the dump fails.
FileAfterPut(file, time, result, outcome) ==
    CASE outcome = "ok" ->
            Some(JsonDump([timestamp |-> IsoFormat(time), result |-> result]))
      [] outcome = "open_fails" -> file
      [] OTHER -> Some(CutShort)

PutOutcomes == {"ok", "open_fails", "dump_fails"}

NoGet == [key |-> <<>>, url |-> <<>>, html |-> <<>>, value |-> None,
          called |-> FALSE]

\* get_cached_result(get_cache_key(url, html)).
CacheGet(url, html) ==
    LET key == get_cache_key(url, html)
    IN /\ got' = [key |-> key, url |-> url, html |-> html,
                  value |-> CachedValue(cache_files[key], now),
                  called |-> TRUE]
       /\ cache_files' = [cache_files EXCEPT
                            ![key] = FileAfterGet(cache_files[key], now)]
       /\ UNCHANGED <<siteVars, now, last_put, analysis, analysed>>

\* cache_result(get_cache_key(url, html), result).
CachePut(url, html, result, outcome) ==
    LET key == get_cache_key(url, html)
    IN /\ cache_files' = [cache_files EXCEPT
                            ![key] = FileAfterPut(cache_files[key], now,
                                                  result, outcome)]
       /\ last_put' = [last_put EXCEPT
                         ![key] = IF outcome = "ok"
                                  THEN Some([result |-> result, at |-> now,
                                             url |-> url, html |-> html])
                                  ELSE None]
       /\ got' = NoGet
       /\ UNCHANGED <<siteVars, now, analysis, analysed>>

\* Time passes.
Tick ==
    /\ now < MaxClock
    /\ now' = now + TickHours
    /\ got' = NoGet
    /\ analysis' = [called |-> FALSE]
    /\ UNCHANGED <<siteVars, cache_files, last_put, analysed>>

\* No request was made of the API, no analysis result is being normalised
\* and integrate_with_repo is not being called.
InitRequests ==
    /\ response = [r \in Runs |-> None]
    /\ test_cases = [normalized |-> FALSE, given |-> <<>>, cases |-> <<>>]
    /\ publish = [phase |-> "none"]

\* ... and the output directory holds no test_cases.json.
InitSide ==
    /\ InitRequests
    /\ listing = None

InitCacheVars ==
    /\ now = 0
    /\ cache_files = [k \in CacheKeys |-> None]
    /\ got = NoGet
    /\ last_put = [k \in CacheKeys |-> None]
    /\ analysis = [called |-> FALSE]
    /\ analysed = [p \in CacheUrls \X CacheHtmls |-> None]

(***************************************************************************)
(* analyze_page (analyzer.py:321-604) as far as the cache is concerned:    *)
(* the extraction and the building of the result are one step that either  *)
(* raises or yields a result.                                              *)
(***************************************************************************)
\* The pages analyze_page is called for in the runs followed.
AnalyzeUrls == {<<"u">>}
AnalyzeHtmls == {<<"h">>}

\* What analyze_page returns: a result, or a dict with an 'error' key.
NoPayload == [testCases |-> <<>>, pomCode |-> ""]
Result(payload) == [error |-> FALSE, value |-> payload]
ErrorMarker == [error |-> TRUE, value |-> NoPayload]

\* The cached value is never used.
CacheHitNever(cached_result) == FALSE

\* analyzer.py:345, `if cached_result:` (the cached results are non-empty
\* dicts, which are truthy).
CacheHit(cached_result) == cached_result # None

\* No handler in cache_result: a failing write raises into analyze_page.
CacheWriteRaisesOnFailure(outcome) == outcome # "ok"

\* analyzer.py:64-65, whether a failing write raises out of cache_result.
CacheWriteRaises(outcome) == FALSE

\* analyze_page(html, url, use_cache).  read_ok: the cache file, if there is
\* one, can be opened; extract_ok: the extraction and the building of the
\* result do not raise; computed: the result built.  The call is recorded
\* in `analysis`: the file it found, whether it could look into the cache,
\* what it computed and what became of the write, if it made one.
\* analyzer.py:336-339: an empty html or url is refused before anything
\* else is done.
InvalidInput(url, html) == html = <<>> \/ url = <<>>

\* What `analysis` has as the result of a call that returned nothing.
NoResult == [error |-> FALSE, value |-> NoPayload]

\* The write is made whatever became of the extraction.
CachesResultAlways(fresh, use_cache) == use_cache

\* analyzer.py:590-592: the write is reached only with a result built, and
\* made only with the cache in use.
CachesResult(fresh, use_cache) == fresh /\ use_cache

AnalyzePage(url, html, use_cache, read_ok, extract_ok, computed, put_outcome) ==
    LET key == get_cache_key(url, html)
        file == cache_files[key]
        looked == use_cache /\ (file = None \/ read_ok)
        cached_result == IF looked THEN CachedValue(file, now) ELSE None
        after_get == IF looked THEN FileAfterGet(file, now) ELSE file
        hit == use_cache /\ CacheHit(cached_result)
        fresh == ~hit /\ extract_ok
        writes == CachesResult(fresh, use_cache)
        raised == writes /\ CacheWriteRaises(put_outcome)
        result == IF hit THEN Result(cached_result.value)
                  ELSE IF fresh /\ ~raised THEN Result(computed)
                  ELSE ErrorMarker
    IN /\ ~InvalidInput(url, html)
       /\ cache_files' =
            [cache_files EXCEPT
                ![key] = IF writes
                         THEN FileAfterPut(after_get, now, computed, put_outcome)
                         ELSE after_get]
       /\ last_put' =
            [last_put EXCEPT
                ![key] = IF ~writes THEN @
                         ELSE IF put_outcome = "ok"
                              THEN Some([result |-> computed, at |-> now,
                                         url |-> url, html |-> html])
                              ELSE None]
       /\ analysis' = [called |-> TRUE, url |-> url, html |-> html,
                       use_cache |-> use_cache, file |-> file,
                       looked |-> looked,
                       computed |-> IF fresh THEN Some(computed) ELSE None,
                       put_outcome |-> IF writes THEN put_outcome ELSE "none",
                       extracted |-> ~hit, wrote |-> writes,
                       result |-> result, prior |-> analysed[<<url, html>>],
                       raised |-> FALSE]
       /\ analysed' =
            IF fresh /\ ~raised
            THEN [analysed EXCEPT
                    ![<<url, html>>] =
                        Some([result |-> computed, at |-> now,
                              use_cache |-> use_cache,
                              put_ok |-> writes /\ put_outcome = "ok"])]
            ELSE analysed
       /\ got' = NoGet
       /\ UNCHANGED <<siteVars, now>>

\* analyzer.py:336-339: analyze_page raises ValueError on an empty html or
\* url, before the try block and before the cache is looked into.
AnalyzeInvalid(url, html, use_cache) ==
    /\ InvalidInput(url, html)
    /\ analysis' = [called |-> TRUE, url |-> url, html |-> html,
                    use_cache |-> use_cache, file |-> None, looked |-> FALSE,
                    computed |-> None, put_outcome |-> "none",
                    extracted |-> FALSE, wrote |-> FALSE, result |-> NoResult,
                    prior |-> None, raised |-> TRUE]
    /\ got' = NoGet
    /\ UNCHANGED <<siteVars, now, cache_files, last_put, analysed>>

(***************************************************************************)
(* The page store (utils/SupabaseClient.py).                               *)
(***************************************************************************)
Row(url, html, origin) == [url |-> url, html |-> html, origin_id |-> origin]

\* result.html of a fetch of the page (crawler.py:79).
HtmlOf(url, blank) == IF url \in blank THEN "" ELSE "html"

RowsOf(db, url) == SelectSeq(db, LAMBDA row : row.url = url)

\* Python's truth test of a returned value ("None" and "False" are falsy).
Truthy(value) == value = "True"

\* isCrawled: whether the select's result has rows; a failing query is
\* caught and the method falls off its end, returning None.
isCrawled(db, url, query_ok) ==
    IF ~query_ok THEN "None"
    ELSE IF Len(RowsOf(db, url)) > 0 THEN "True" ELSE "False"

\* No handler in insert_page_to_db: a failing insert reaches the caller.
InsertPropagatesFailure(insert_ok) == ~insert_ok

\* insert_page_to_db, lines 36-38: whether a failing insert reaches the caller.
InsertPropagates(insert_ok) == FALSE

\* insert_page_to_db: the row is appended unless the insert fails.
insert_page_to_db(db, url, html, origin, insert_ok) ==
    IF insert_ok THEN Append(db, Row(url, html, origin)) ELSE db

(***************************************************************************)
(* crawl_website (crawler.py).                                             *)
(***************************************************************************)
\* The gate without its netloc test.
LinkAcceptedAnyDomain(href, domain, seen) == href \notin seen

\* The gate without its visited test.
LinkAcceptedThoughVisited(href, domain, seen) == Netloc(href) = domain

\* crawler.py:98, the gate a link passes to be appended to the queue.
LinkAccepted(href, domain, seen) == Netloc(href) = domain /\ href \notin seen

RECURSIVE AcceptedLinksFirstOnly(_, _, _)
\* The loop over the links left after the first link appended.
AcceptedLinksFirstOnly(links, domain, seen) ==
    IF links = <<>> THEN <<>>
    ELSE IF Netloc(Head(links)) = domain /\ Head(links) \notin seen
         THEN <<Head(links)>>
         ELSE AcceptedLinksFirstOnly(Tail(links), domain, seen)

RECURSIVE AcceptedLinks(_, _, _)
\* crawler.py:95-100, the links appended, in order.
AcceptedLinks(links, domain, seen) ==
    IF links = <<>> THEN <<>>
    ELSE IF LinkAccepted(Head(links), domain, seen)
         THEN <<Head(links)>> \o AcceptedLinks(Tail(links), domain, seen)
         ELSE AcceptedLinks(Tail(links), domain, seen)

\* pop() in place of pop(0): the newest URL is taken.
PopLast(queue) == Len(queue)

\* crawler.py:68, pop(0): the position the next URL is taken from.
PopIndex(queue) == 1

\* The popped URL stays in the queue.
RemoveNothing(queue, i) == queue

\* crawler.py:68, pop(0): the queue without the URL taken from it.
RemoveAt(queue, i) ==
    [j \in 1..(Len(queue) - 1) |-> IF j < i THEN queue[j] ELSE queue[j + 1]]

\* The visited guard at the head of the loop left out.
AlreadyVisitedNever(url, seen) == FALSE

\* crawler.py:69, a popped URL already visited is dropped.
AlreadyVisited(url, seen) == url \in seen

\* The continue after "is already crawled" left out.
SkipsFetchNever(answer) == FALSE

\* crawler.py:72-74, the isCrawled answer that makes the loop skip the fetch.
SkipsFetch(answer) == Truthy(answer)

\* No handler round the fetch: the error ends crawl_website.
AfterFetchErrorStops == "crawl_done"

\* crawler.py:101-102, where control goes when the try block raises.
AfterFetchError == "crawl_loop"

Ev(kind, r, url) == <<kind, r, url>>

RECURSIVE EnqueueEvents(_, _)
EnqueueEvents(r, links) ==
    IF links = <<>> THEN <<>>
    ELSE <<Ev("enqueue", r, Head(links))>> \o EnqueueEvents(r, Tail(links))

\* crawler.py:67-77: pop, the visited guard, the isCrawled guard, and the
\* call of crawler.arun, at which the coroutine is suspended.
Dequeue(r) ==
    /\ pc[r] = "crawl_loop"
    /\ to_crawl[r] # <<>>
    /\ LET i == PopIndex(to_crawl[r])
           url == to_crawl[r][i]
           rest == RemoveAt(to_crawl[r], i)
       IN /\ to_crawl' = [to_crawl EXCEPT ![r] = rest]
          /\ IF AlreadyVisited(url, visited[r])
             THEN /\ trace' = Append(trace, Ev("pop_dup", r, url))
                  /\ UNCHANGED <<visited, pc, cur>>
             ELSE /\ visited' = [visited EXCEPT ![r] = @ \cup {url}]
                  /\ \E query_ok \in BOOLEAN :
                        LET answer == isCrawled(pages_db, url, query_ok)
                            asked == <<Ev("pop", r, url)>>
                                     \o (IF Truthy(answer)
                                         THEN <<Ev("already", r, url)>>
                                         ELSE <<>>)
                        IN IF SkipsFetch(answer)
                           THEN /\ trace' = trace \o asked
                                /\ UNCHANGED <<pc, cur>>
                           ELSE /\ trace' = trace \o Append(asked, Ev("fetch", r, url))
                                /\ pc' = [pc EXCEPT ![r] = "crawl_await"]
                                /\ cur' = [cur EXCEPT ![r] = url]
    /\ UNCHANGED <<site, blank_pages, pages_db, start_url, crawled_pages, runVars, cacheVars>>

\* crawler.py:77-80, 101-102: arun (or the reading of its result) raises;
\* the handler logs and the loop goes on.
FetchRaises(r) ==
    /\ pc[r] = "crawl_await"
    /\ trace' = Append(trace, Ev("fetch_failed", r, cur[r]))
    /\ pc' = [pc EXCEPT ![r] = AfterFetchError]
    /\ cur' = [cur EXCEPT ![r] = NoUrl]
    /\ UNCHANGED <<site, blank_pages, pages_db, start_url, visited, to_crawl, crawled_pages,
                   runVars, cacheVars>>

\* crawler.py:78: result.success is false; nothing is done with the result.
FetchUnsuccessful(r) ==
    /\ pc[r] = "crawl_await"
    /\ trace' = Append(trace, Ev("fetch_failed", r, cur[r]))
    /\ pc' = [pc EXCEPT ![r] = "crawl_loop"]
    /\ cur' = [cur EXCEPT ![r] = NoUrl]
    /\ UNCHANGED <<site, blank_pages, pages_db, start_url, visited, to_crawl, crawled_pages,
                   runVars, cacheVars>>

\* crawler.py:78-100: the page is stored, listed, and its links are enqueued.
FetchSucceeds(r) ==
    /\ pc[r] = "crawl_await"
    /\ \E insert_ok \in BOOLEAN :
        LET url == cur[r]
            links == SelectOf(site, url)
            domain == Netloc(start_url[r])
            added == AcceptedLinks(links, domain, visited[r])
            stored == <<Ev("fetch_ok", r, url),
                        Ev(IF insert_ok THEN "insert" ELSE "insert_error",
                           r, url)>>
        IN /\ pages_db' = insert_page_to_db(pages_db, url,
                                             HtmlOf(url, blank_pages), r,
                                             insert_ok)
           /\ IF InsertPropagates(insert_ok)
              THEN /\ trace' = trace \o stored
                   /\ pc' = [pc EXCEPT ![r] = AfterFetchError]
                   /\ UNCHANGED <<crawled_pages, to_crawl>>
              ELSE /\ crawled_pages' =
                        [crawled_pages EXCEPT ![r] = Append(@, url)]
                   /\ to_crawl' = [to_crawl EXCEPT ![r] = @ \o added]
                   /\ trace' = trace \o stored \o EnqueueEvents(r, added)
                   /\ pc' = [pc EXCEPT ![r] = "crawl_loop"]
    /\ cur' = [cur EXCEPT ![r] = NoUrl]
    /\ UNCHANGED <<site, blank_pages, start_url, visited, runVars, cacheVars>>

\* crawler.py:67, 103: the queue is empty; crawled_pages is returned.
CrawlReturn(r) ==
    /\ pc[r] = "crawl_loop"
    /\ to_crawl[r] = <<>>
    /\ pc' = [pc EXCEPT ![r] = "crawl_done"]
    /\ UNCHANGED <<site, blank_pages, pages_db, start_url, crawlVars, runVars, cacheVars, trace>>

\* The stored rows a run may find: any set of the site's pages, left by an
\* earlier run.
StoredBefore(edges) == SUBSET (ReachableVia(edges, {UrlRoot}) \cap Pages)

RECURSIVE RowsFor(_, _)
RowsFor(urls, blank) ==
    IF urls = {} THEN <<>>
    ELSE LET u == CHOOSE x \in urls : \A y \in urls : PageIndex(x) <= PageIndex(y)
         IN <<Row(u, HtmlOf(u, blank), 0)>> \o RowsFor(urls \ {u}, blank)

\* The state a run starts in, at control position `position`, on a site
\* of at most `links` links whose pages have html, or of which any may
\* have none, the output directory holding one of `listings`.
InitRunListing(position, links, may_be_blank, listings) ==
    /\ site \in {s \in Sites : Len(s) <= links}
    /\ blank_pages \in (IF may_be_blank
                        THEN SUBSET (ReachableVia(site, {UrlRoot}) \cap Pages)
                        ELSE {{}})
    /\ \E s \in StoredBefore(site) : pages_db = RowsFor(s, blank_pages)
    /\ start_url = [r \in Runs |-> UrlRoot]
    /\ pc = [r \in Runs |-> position]
    /\ visited = [r \in Runs |-> {}]
    /\ to_crawl = [r \in Runs |-> <<start_url[r]>>]
    /\ crawled_pages = [r \in Runs |-> <<>>]
    /\ cur = [r \in Runs |-> NoUrl]
    /\ todo = [r \in Runs |-> <<>>]
    /\ files_to_add = [r \in Runs |-> <<>>]
    /\ trace = <<>>
    /\ InitCacheVars
    /\ InitRequests
    /\ listing \in listings

\* The same, the output directory holding no test_cases.json.
InitRun(position, links, may_be_blank) ==
    InitRunListing(position, links, may_be_blank, {None})

\* crawler.py:11-25, 64: the state crawl_website(start_url) starts its loop in.
InitCrawl == InitRun("crawl_loop", MaxSiteLinks, FALSE)

NextCrawl ==
    \E r \in Runs :
        \/ Dequeue(r)
        \/ FetchRaises(r)
        \/ FetchUnsuccessful(r)
        \/ FetchSucceeds(r)
        \/ CrawlReturn(r)

SpecCrawl == InitCrawl /\ [][NextCrawl]_vars

(***************************************************************************)
(* process_website (main.py).                                              *)
(***************************************************************************)

\* get_page_from_db: the first row of the url, or None when the query fails
\* or finds no row (result.data[0] raises, which the method catches).
get_page_from_db(db, url, query_ok) ==
    IF query_ok /\ Len(RowsOf(db, url)) > 0 THEN Some(RowsOf(db, url)[1])
    ELSE None

\* get_page_urls_by_origin returns the select's response itself, not the
\* urls of its rows; what main.py's for loop walks over are the parts of
\* that response, none of which is a URL of the site.
ResponseParts == << <<"data">>, <<"count">> >>

get_page_urls_by_origin(db, origin_id, query_ok) ==
    IF query_ok THEN Some(ResponseParts) ELSE None

\* main.py:82-85, for a start URL that ends in "/": the url with the start
\* URL taken out and the slashes at its ends stripped; "home" if nothing
\* is left.
PagePath(url, start) ==
    IF Len(url) >= Len(start)
       /\ SubSeq(url, 1, Len(start) - 1) = SubSeq(start, 1, Len(start) - 1)
       /\ start[Len(start)] = ""
    THEN LET rest == SelectSeq(SubSeq(url, Len(start), Len(url)),
                               LAMBDA piece : piece # "")
         IN IF rest = <<>> THEN <<"home">> ELSE rest
    ELSE url

\* main.py:107-108.
PomFile(page_path) == <<"pages">> \o page_path \o <<".page.ts">>
TestFile(page_path) == <<"tests">> \o page_path \o <<".test.ts">>

\* files_to_add[path] = content: an entry is replaced, or added at the end.
SetFile(files, path, content) ==
    IF \E i \in DOMAIN files : files[i][1] = path
    THEN [i \in DOMAIN files |->
            IF files[i][1] = path THEN <<path, content>> ELSE files[i]]
    ELSE Append(files, <<path, content>>)

\* How far one URL gets in main.py:55-117, given a record with html.
\*   analysis_none, analysis_error   analyze_page returns nothing / an error
\*   bad_format, normalize_raises    no test cases or no POM code / a test
\*                                   case that is no dict
\*   generate_raises                 generate_test_code raises
\*   validate_raises                 validate_test_cases raises, or the
\*                                   feedback file cannot be written
\*   validate_llm_fails              llm.invoke raises in validate_test_cases
\*   emit_raises                     generate_outputs raises before it has
\*                                   opened test_cases.json
\*   emit_dump_raises                json.dump raises, the file opened
\*   emit_summary_raises             generate_outputs raises after the dump,
\*                                   in the making of test_cases.md
StageOutcomes ==
    {"analysis_none", "analysis_error", "bad_format", "normalize_raises",
     "generate_raises", "validate_raises", "validate_llm_fails", "emit_raises",
     "emit_dump_raises", "emit_summary_raises", "ok"}

\* generator.py:52-68: what a call of generate_outputs that raises has done
\* to test_cases.json before: nothing, left it cut short, or written it.
EmitEvents(outcome) ==
    CASE outcome = "emit_raises" -> <<"emit_error">>
      [] outcome = "emit_dump_raises" -> <<"listing_cut", "emit_error">>
      [] OTHER -> <<"listing", "emit_error">>

\* The test cases are added to those the file holds.
WrittenListingAccumulated(held, url) == held \o <<url>>

\* generator.py:55-56: the file is opened with 'w' and {"testCases":
\* test_cases} dumped into it: the URLs whose test cases the file holds.
WrittenListing(held, url) == <<url>>

\* generator.py:55-56: test_cases.json after a call for the test cases of
\* url that made the events `kinds`.
ListingAfter(file, kinds, url) ==
    LET held == IF file = None THEN <<>> ELSE file.value.of
    IN IF \E i \in DOMAIN kinds : kinds[i] = "listing"
       THEN Some([whole |-> TRUE, of |-> WrittenListing(held, url)])
       ELSE IF \E i \in DOMAIN kinds : kinds[i] = "listing_cut"
       THEN Some([whole |-> FALSE, of |-> <<url>>])
       ELSE file

\* qa_validator.py:43-48, main.py:94-117: llm.invoke raises; the handler in
\* validate_test_cases returns a text, which main.py takes as the feedback.
StagesAfterLlmFailure ==
    <<"analyze", "normalize", "generate", "validate", "validate_failed",
      "collect", "emit", "listing">>

\* The calls in the order validation, then generation of the test code.
StageEventsValidateFirst(outcome) ==
    CASE outcome \in {"analysis_none", "analysis_error"} ->
            <<"analyze", "analyze_failed">>
      [] outcome = "bad_format" -> <<"analyze">>
      [] outcome = "normalize_raises" -> <<"analyze", "normalize">>
      [] outcome = "generate_raises" ->
            <<"analyze", "normalize", "validate", "generate", "generate_error">>
      [] outcome = "validate_raises" ->
            <<"analyze", "normalize", "validate", "validate_error">>
      [] outcome = "validate_llm_fails" ->
            <<"analyze", "normalize", "validate", "validate_failed", "generate",
              "collect", "emit", "listing">>
      [] outcome \in {"emit_raises", "emit_dump_raises", "emit_summary_raises"} ->
            <<"analyze", "normalize", "validate", "generate", "collect", "emit">>
            \o EmitEvents(outcome)
      [] OTHER ->
            <<"analyze", "normalize", "validate", "generate", "collect", "emit",
              "listing">>

\* The two files are put into the map after generate_outputs has returned.
StageEventsCollectLast(outcome) ==
    CASE outcome \in {"analysis_none", "analysis_error"} ->
            <<"analyze", "analyze_failed">>
      [] outcome = "bad_format" -> <<"analyze">>
      [] outcome = "normalize_raises" -> <<"analyze", "normalize">>
      [] outcome = "generate_raises" ->
            <<"analyze", "normalize", "generate", "generate_error">>
      [] outcome = "validate_raises" ->
            <<"analyze", "normalize", "generate", "validate", "validate_error">>
      [] outcome = "validate_llm_fails" ->
            <<"analyze", "normalize", "generate", "validate", "validate_failed",
              "emit", "listing", "collect">>
      [] outcome \in {"emit_raises", "emit_dump_raises", "emit_summary_raises"} ->
            <<"analyze", "normalize", "generate", "validate", "emit">>
            \o EmitEvents(outcome)
      [] OTHER ->
            <<"analyze", "normalize", "generate", "validate", "emit", "listing",
              "collect">>

\* main.py:55-117: the calls made for a URL whose record has html, in order.
StageEvents(outcome) ==
    CASE outcome \in {"analysis_none", "analysis_error"} ->
            <<"analyze", "analyze_failed">>
      [] outcome = "bad_format" -> <<"analyze">>
      [] outcome = "normalize_raises" -> <<"analyze", "normalize">>
      [] outcome = "generate_raises" ->
            <<"analyze", "normalize", "generate", "generate_error">>
      [] outcome = "validate_raises" ->
            <<"analyze", "normalize", "generate", "validate", "validate_error">>
      [] outcome = "validate_llm_fails" -> StagesAfterLlmFailure
      [] outcome \in {"emit_raises", "emit_dump_raises", "emit_summary_raises"} ->
            <<"analyze", "normalize", "generate", "validate", "collect", "emit">>
            \o EmitEvents(outcome)
      [] OTHER ->
            <<"analyze", "normalize", "generate", "validate", "collect", "emit",
              "listing">>

\* The record is taken to have html whatever it is.
HtmlMissingNever(query_result) == FALSE

\* main.py:51 (and 119 for a record that is None, on which .get raises).
HtmlMissing(query_result) ==
    query_result = None \/ query_result.value.html = ""

\* The handler round the loop body left out: the error ends the run.
AfterUrlErrorStops == "failed"

\* main.py:53-121: where control goes when a stage fails: `continue`.
AfterUrlError == "pipeline"

RECURSIVE Events(_, _, _)
Events(kinds, r, url) ==
    IF kinds = <<>> THEN <<>>
    ELSE <<Ev(Head(kinds), r, url)>> \o Events(Tail(kinds), r, url)

\* main.py:16: SupabaseClient() raises when its environment is missing;
\* otherwise crawl_website is called.
Construct(r) ==
    /\ pc[r] = "new"
    /\ \E env_ok \in BOOLEAN :
          IF env_ok
          THEN /\ pc' = [pc EXCEPT ![r] = "crawl_loop"]
               /\ trace' = trace
          ELSE /\ pc' = [pc EXCEPT ![r] = "failed"]
               /\ trace' = Append(trace, Ev("construct_error", r, start_url[r]))
    /\ UNCHANGED <<site, blank_pages, pages_db, start_url, crawlVars, runVars,
                   cacheVars>>

\* The list comes back last page first.
ReturnedListReversed(pages) ==
    [i \in 1..Len(pages) |-> pages[Len(pages) + 1 - i]]

\* crawler.py:103, main.py:26: crawled_urls is the list crawl_website built,
\* in the order in which the pages were stored.
ReturnedList(pages) == pages

\* The start URL is taken to have a record whatever the store answered.
NothingStoredNever(query_result) == FALSE

\* main.py:30, `if not query_result`: the store gave no record.
NothingStored(query_result) == query_result = None

\* main.py:26-41: crawl_website has returned; with nothing crawled, the
\* start URL's record and the stored pages of its origin are asked for;
\* then the output directory is made.
AfterCrawl(r) ==
    /\ pc[r] = "crawl_done"
    /\ \E query_ok \in BOOLEAN, origin_ok \in BOOLEAN, dir_ok \in BOOLEAN :
          LET query_result == get_page_from_db(pages_db, start_url[r], query_ok)
              urls == IF crawled_pages[r] # <<>>
                      THEN Some(ReturnedList(crawled_pages[r]))
                      ELSE IF query_result = None THEN None
                      ELSE get_page_urls_by_origin(
                               pages_db, query_result.value.origin_id, origin_ok)
              asked == IF crawled_pages[r] # <<>> THEN <<>>
                       ELSE IF query_result = None
                            THEN <<Ev("no_data", r, start_url[r])>>
                            ELSE <<Ev("fallback", r, start_url[r])>>
          IN IF crawled_pages[r] = <<>> /\ NothingStored(query_result)
             \* main.py:30-32: nothing crawled, nothing stored: return.
             THEN /\ pc' = [pc EXCEPT ![r] = "done"]
                  /\ trace' = trace \o asked
                  /\ todo' = todo
             ELSE IF ~dir_ok
             \* main.py:40: os.makedirs raises out of the run.
             THEN /\ pc' = [pc EXCEPT ![r] = "failed"]
                  /\ trace' = Append(trace \o asked,
                                     Ev("makedirs_error", r, start_url[r]))
                  /\ todo' = todo
             ELSE IF urls = None
             \* main.py:42: iterating None raises out of the run.
             THEN /\ pc' = [pc EXCEPT ![r] = "failed"]
                  /\ trace' = Append(trace \o asked,
                                     Ev("listing_error", r, start_url[r]))
                  /\ todo' = todo
             ELSE /\ pc' = [pc EXCEPT ![r] = "pipeline"]
                  /\ trace' = trace \o asked
                  /\ todo' = [todo EXCEPT ![r] = urls.value]
    /\ UNCHANGED <<site, blank_pages, pages_db, start_url, crawlVars,
                   files_to_add, cacheVars>>

\* main.py:42-121: one turn of the per-URL loop.
ProcessUrl(r) ==
    /\ pc[r] = "pipeline"
    /\ todo[r] # <<>>
    /\ LET url == Head(todo[r])
           page_path == PagePath(url, start_url[r])
       IN \E query_ok \in BOOLEAN, outcome \in StageOutcomes :
            LET query_result == get_page_from_db(pages_db, url, query_ok)
                kinds == IF HtmlMissing(query_result)
                         THEN <<"resolve", "no_html">>
                         ELSE <<"resolve">> \o StageEvents(outcome)
                collects == \E i \in DOMAIN kinds : kinds[i] = "collect"
                whole == kinds[Len(kinds)] = "listing"
            IN /\ trace' = trace \o Events(kinds, r, url)
               /\ listing' = ListingAfter(listing, kinds, url)
               /\ files_to_add' =
                    IF collects
                    THEN [files_to_add EXCEPT ![r] =
                            SetFile(SetFile(@, PomFile(page_path), url),
                                    TestFile(page_path), url)]
                    ELSE files_to_add
               /\ pc' = [pc EXCEPT ![r] = IF whole THEN "pipeline"
                                          ELSE AfterUrlError]
    /\ todo' = [todo EXCEPT ![r] = Tail(@)]
    /\ UNCHANGED <<site, blank_pages, pages_db, start_url, crawlVars, now,
                   cache_files, got, last_put, analysis, analysed, response,
                   test_cases, publish>>

\* The call is made whatever was collected.
PublishDueAlways(files) == TRUE

\* main.py:123: integrate_with_repo is called if files were collected.
PublishDue(files) == files # <<>>

\* No handler round integrate_with_repo: its error ends the run.
AfterPublishErrorFails == "failed"

\* main.py:131-132: the handler logs; process_website returns.
AfterPublishError == "done"

\* main.py:123-132: nothing collected, or one call of integrate_with_repo
\* with all that was collected; its failure is caught and logged.
FinishRun(r) ==
    /\ pc[r] = "pipeline"
    /\ todo[r] = <<>>
    /\ IF ~PublishDue(files_to_add[r])
       THEN /\ trace' = Append(trace, Ev("no_files", r, start_url[r]))
            /\ pc' = [pc EXCEPT ![r] = "done"]
       ELSE \E publish_ok \in BOOLEAN :
              /\ trace' = trace \o
                    <<<<"publish", r, start_url[r], files_to_add[r]>>>> \o
                    (IF publish_ok THEN <<>>
                     ELSE <<Ev("publish_error", r, start_url[r])>>)
              /\ pc' = [pc EXCEPT ![r] = IF publish_ok THEN "done"
                                         ELSE AfterPublishError]
    /\ UNCHANGED <<site, blank_pages, pages_db, start_url, crawlVars, runVars,
                   cacheVars>>

\* Bound: the number of links of the sites on which whole runs are followed.
MaxRunLinks == 1

\* main.py:112-116, generator.py:52: the output directory is named after the
\* start URL and kept from one run to the next (makedirs, exist_ok=True):
\* a run finds no test_cases.json in it, or the one an earlier run of the
\* same start URL left there.
ListingsFound == {None, Some([whole |-> TRUE, of |-> <<UrlA>>])}

\* main.py:15: process_website(start_url) is called.
Init == InitRunListing("new", MaxRunLinks, TRUE, ListingsFound)

Next ==
    \E r \in Runs :
        \/ Construct(r)
        \/ Dequeue(r)
        \/ FetchRaises(r)
        \/ FetchUnsuccessful(r)
        \/ FetchSucceeds(r)
        \/ CrawlReturn(r)
        \/ AfterCrawl(r)
        \/ ProcessUrl(r)
        \/ FinishRun(r)

Spec == Init /\ [][Next]_vars

(***************************************************************************)
(* The test cases of an analysis result (main.py:66-78).  A test case is   *)
(* a dict: a function from its keys to their values, a value being         *)
(* Some(v), or None for Python's None (JSON's null).                       *)
(***************************************************************************)
\* Bound: the number of test cases of an analysis result.
MaxTestCases == 2

\* What a key of a test case may be given as by the analysis: None if the
\* key is absent, else Some of its value, which is null or proper.
PreconditionsGiven == {None, Some(None), Some(Some("logged in"))}
EdgeCasesGiven == {None, Some(None), Some(Some(<<"empty form">>))}

TestCase(preconditions, edgeCases) ==
    [key \in {"title"}
               \cup (IF preconditions = None THEN {} ELSE {"preconditions"})
               \cup (IF edgeCases = None THEN {} ELSE {"edgeCases"}) |->
        CASE key = "preconditions" -> preconditions.value
          [] key = "edgeCases" -> edgeCases.value
          [] OTHER -> Some("title")]

TestCasesGiven ==
    {TestCase(p, e) : p \in PreconditionsGiven, e \in EdgeCasesGiven}

\* tc[key] = value.
SetKey(tc, key, value) ==
    [k \in DOMAIN tc \cup {key} |-> IF k = key THEN value ELSE tc[k]]

\* main.py:75-78: the two keys are set if they are not in the dict.
NormalizeCase(tc) ==
    LET with_preconditions ==
            IF "preconditions" \notin DOMAIN tc
            THEN SetKey(tc, "preconditions", Some("No specific preconditions"))
            ELSE tc
    IN IF "edgeCases" \notin DOMAIN with_preconditions
       THEN SetKey(with_preconditions, "edgeCases", Some(<<>>))
       ELSE with_preconditions

\* main.py:74-78: the loop over the test cases.
Normalize ==
    /\ ~test_cases.normalized
    /\ test_cases' =
          [test_cases EXCEPT
              !.normalized = TRUE,
              !.cases = [i \in DOMAIN test_cases.cases |->
                            NormalizeCase(test_cases.cases[i])]]
    /\ UNCHANGED <<site, blank_pages, pages_db, start_url, pc, crawlVars,
                   runVars, trace, now, cache_files, got, last_put, analysis,
                   analysed, response, publish, listing>>

(***************************************************************************)
(* integrate_with_repo (repo_integrator.py:10-83).  `publish` is the call  *)
(* under way: its arguments, its position, whether the directory repo_dir  *)
(* exists, the failure to be raised and what became of the cleanup.        *)
(***************************************************************************)
\* Bound: the number of files in files_to_add.
MaxFiles == 3

\* The failure is raised at once, the finally clause left out.
AfterFailureRaises == "raised"

\* repo_integrator.py:68-83: a failure inside the try is printed and
\* re-raised, which takes control through the finally clause.
AfterFailure == "cleanup"

Failed(call, failure) ==
    [call EXCEPT !.phase = AfterFailure, !.error = Some(failure)]

\* repo_integrator.py:23-28: the checks made before repo_dir is named.
CheckArguments ==
    /\ publish.phase = "called"
    /\ publish' =
          IF ~publish.repo_url \/ publish.files = 0 \/ ~publish.token
          THEN [publish EXCEPT !.phase = "raised", !.error = Some("ValueError")]
          ELSE [publish EXCEPT !.phase = "clone"]
    /\ UNCHANGED <<site, blank_pages, pages_db, start_url, pc, crawlVars,
                   runVars, trace, now, cache_files, got, last_put, analysis,
                   analysed, response, test_cases, listing>>

\* repo_integrator.py:30, 38-41: Repo.clone_from makes repo_dir; a clone
\* that fails may have made the directory already.  The directory is named
\* after the second of the call: if one of that name is there, left by a
\* call made in the same second, the clone fails and makes nothing.
Clone ==
    /\ publish.phase = "clone"
    /\ \E ok \in BOOLEAN, made \in BOOLEAN :
          publish' =
            IF publish.dir THEN Failed(publish, "clone")
            ELSE IF ok
            THEN [publish EXCEPT !.phase = "branch", !.dir = TRUE,
                                 !.created = TRUE]
            ELSE [Failed(publish, "clone") EXCEPT !.dir = made,
                                                  !.created = made]
    /\ UNCHANGED <<site, blank_pages, pages_db, start_url, pc, crawlVars,
                   runVars, trace, now, cache_files, got, last_put, analysis,
                   analysed, response, test_cases, listing>>

\* repo_integrator.py:44-49: the new branch is made and checked out.
Branch ==
    /\ publish.phase = "branch"
    /\ \E ok \in BOOLEAN :
          publish' = IF ok THEN [publish EXCEPT !.phase = "write"]
                     ELSE Failed(publish, "branch")
    /\ UNCHANGED <<site, blank_pages, pages_db, start_url, pc, crawlVars,
                   runVars, trace, now, cache_files, got, last_put, analysis,
                   analysed, response, test_cases, listing>>

\* repo_integrator.py:52-60: one file is written and added to the index.
WriteFile ==
    /\ publish.phase = "write"
    /\ publish.written < publish.files
    /\ \E ok \in BOOLEAN :
          publish' = IF ok THEN [publish EXCEPT !.written = @ + 1]
                     ELSE Failed(publish, "write")
    /\ UNCHANGED <<site, blank_pages, pages_db, start_url, pc, crawlVars,
                   runVars, trace, now, cache_files, got, last_put, analysis,
                   analysed, response, test_cases, listing>>

\* repo_integrator.py:63-69: commit and push, all files written.
CommitPush ==
    /\ publish.phase = "write"
    /\ publish.written = publish.files
    /\ \E ok \in BOOLEAN :
          publish' = IF ok THEN [publish EXCEPT !.phase = "cleanup",
                                                !.pushed = TRUE]
                     ELSE Failed(publish, "push")
    /\ UNCHANGED <<site, blank_pages, pages_db, start_url, pc, crawlVars,
                   runVars, trace, now, cache_files, got, last_put, analysis,
                   analysed, response, test_cases, listing>>

\* repo_integrator.py:75-83: the finally clause: repo_dir is removed if it
\* exists; an OSError of rmtree is caught and a warning printed.  Then the
\* call returns, or the failure is raised.
Cleanup ==
    /\ publish.phase = "cleanup"
    /\ \E removed \in BOOLEAN :
          publish' =
            [publish EXCEPT
                !.phase = IF publish.error = None THEN "returned" ELSE "raised",
                !.dir = publish.dir /\ ~removed,
                !.cleanup = IF ~publish.dir THEN "nothing"
                            ELSE IF removed THEN "removed" ELSE "warned"]
    /\ UNCHANGED <<site, blank_pages, pages_db, start_url, pc, crawlVars,
                   runVars, trace, now, cache_files, got, last_put, analysis,
                   analysed, response, test_cases, listing>>

(***************************************************************************)
(* POST /crawl (api.py:35-47).                                             *)
(***************************************************************************)
\* api.py:47: the body of the answer.
Acknowledgement(url) ==
    [message |-> "Crawling and test generation started", url |-> url]

\* The handler awaits process_website: no answer when the run is started.
AnswerAfterRun(url) == None

\* api.py:46-47: what the caller has when start_crawl has created the task:
\* the handler returns without an await between create_task and return.
AnswerAtStart(url) == Some(Acknowledgement(url))

\* start_crawl: the task of process_website(request.url) is created, to be
\* run by the event loop, and the acknowledgement is returned.
StartCrawl(r) ==
    /\ pc[r] = "idle"
    /\ pc' = [pc EXCEPT ![r] = "new"]
    /\ response' = [response EXCEPT ![r] = AnswerAtStart(start_url[r])]
    /\ UNCHANGED <<site, blank_pages, pages_db, start_url, crawlVars, runVars,
                   trace, now, cache_files, got, last_put, analysis, analysed,
                   test_cases, publish, listing>>

\* The server is up and no request was made.
InitApi == InitRun("idle", MaxRunLinks, TRUE)

NextApi ==
    \/ \E r \in Runs : StartCrawl(r)
    \/ Next

SpecApi == InitApi /\ [][NextApi]_vars

\* api.py:35-47: the requests POST /crawl made of one server, each of which
\* becomes a task of the one event loop.
Requests == {1, 2}

\* Bound: the number of links of the site two concurrent runs crawl.
MaxSharedLinks == 1

\* The server is up and no request was made; the two requests to come are
\* for the same site. crawler.py:13, 23-25: each call of crawl_website
\* has its own origin, visited, to_crawl and crawled_pages, and main.py:42
\* its own files_to_add.
InitTwoRuns ==
    /\ site \in {s \in Sites : Len(s) <= MaxSharedLinks}
    /\ blank_pages = {}
    /\ \E s \in StoredBefore(site) : pages_db = RowsFor(s, blank_pages)
    /\ start_url = [r \in Requests |-> UrlRoot]
    /\ pc = [r \in Requests |-> "idle"]
    /\ visited = [r \in Requests |-> {}]
    /\ to_crawl = [r \in Requests |-> <<start_url[r]>>]
    /\ crawled_pages = [r \in Requests |-> <<>>]
    /\ cur = [r \in Requests |-> NoUrl]
    /\ todo = [r \in Requests |-> <<>>]
    /\ files_to_add = [r \in Requests |-> <<>>]
    /\ trace = <<>>
    /\ InitCacheVars
    /\ response = [r \in Requests |-> None]
    /\ test_cases = [normalized |-> FALSE, given |-> <<>>, cases |-> <<>>]
    /\ publish = [phase |-> "none"]
    /\ listing = None

\* api.py:46, crawler.py:66-103: the tasks of the two requests take their
\* steps in any order, one giving way to the other where it awaits
\* (crawler.py:64, 77).
NextTwoRuns ==
    \E r \in Requests :
        \/ StartCrawl(r)
        \/ Construct(r)
        \/ Dequeue(r)
        \/ FetchRaises(r)
        \/ FetchUnsuccessful(r)
        \/ FetchSucceeds(r)
        \/ CrawlReturn(r)

SpecTwoRuns == InitTwoRuns /\ [][NextTwoRuns]_vars

\* The event loop goes on running the task it was given.
FairSpecApi == SpecApi /\ WF_vars(Next)

\* Pages whose URLs differ from another page's by a slash at the end, or
\* from the start URL by the name "home".
UrlASlash == <<"https:", "", "x.test", "a", "">>
UrlHome == <<"https:", "", "x.test", "home">>
PathPages == {UrlA, UrlASlash, UrlHome}

\* Bound: the number of links on the start page of the sites on which the
\* paths of the files are followed.
MaxPathLinks == 2

\* No link is listed twice.
NoRepeat(edges) == \A i, j \in DOMAIN edges : edges[i] = edges[j] => i = j

RECURSIVE StarSites(_)
\* The sites whose start page links to at most n of PathPages, each once.
StarSites(n) ==
    IF n = 0 THEN {<<>>}
    ELSE LET shorter == StarSites(n - 1)
         IN shorter \cup
            {Append(s, <<UrlRoot, p>>) :
                s \in {t \in shorter : Len(t) = n - 1},
                p \in PathPages}

\* main.py:15: process_website(start_url) is called on such a site; the
\* store is empty.
InitPaths ==
    /\ site \in {s \in StarSites(MaxPathLinks) : NoRepeat(s)}
    /\ blank_pages = {}
    /\ pages_db = <<>>
    /\ start_url = [r \in Runs |-> UrlRoot]
    /\ pc = [r \in Runs |-> "new"]
    /\ visited = [r \in Runs |-> {}]
    /\ to_crawl = [r \in Runs |-> <<start_url[r]>>]
    /\ crawled_pages = [r \in Runs |-> <<>>]
    /\ cur = [r \in Runs |-> NoUrl]
    /\ todo = [r \in Runs |-> <<>>]
    /\ files_to_add = [r \in Runs |-> <<>>]
    /\ trace = <<>>
    /\ InitCacheVars
    /\ InitSide

SpecPaths == InitPaths /\ [][Next]_vars

\* The cache on its own: lookups, writes and the passing of time, with no
\* run under way.
InitQuiet ==
    /\ site = <<>>
    /\ blank_pages = {}
    /\ pages_db = <<>>
    /\ start_url = [r \in Runs |-> UrlRoot]
    /\ pc = [r \in Runs |-> "idle"]
    /\ visited = [r \in Runs |-> {}]
    /\ to_crawl = [r \in Runs |-> <<>>]
    /\ crawled_pages = [r \in Runs |-> <<>>]
    /\ cur = [r \in Runs |-> NoUrl]
    /\ todo = [r \in Runs |-> <<>>]
    /\ files_to_add = [r \in Runs |-> <<>>]
    /\ trace = <<>>
    /\ InitCacheVars

InitCache == InitQuiet /\ InitSide

\* main.py:66-72: an analysis result with at least one test case has
\* arrived at the loop.
InitNormalize ==
    /\ InitQuiet
    /\ response = [r \in Runs |-> None]
    /\ publish = [phase |-> "none"]
    /\ listing = None
    /\ \E n \in 1..MaxTestCases : \E given \in [1..n -> TestCasesGiven] :
          test_cases = [normalized |-> FALSE, given |-> given, cases |-> given]

NextNormalize == Normalize

SpecNormalize == InitNormalize /\ [][NextNormalize]_vars

\* integrate_with_repo is called: with or without a repository URL and a
\* token in the environment, with some number of files, and with or
\* without a directory of the name of repo_dir there already.
InitRepo ==
    /\ InitQuiet
    /\ response = [r \in Runs |-> None]
    /\ test_cases = [normalized |-> FALSE, given |-> <<>>, cases |-> <<>>]
    /\ listing = None
    /\ \E repo_url \in BOOLEAN, token \in BOOLEAN, files \in 0..MaxFiles,
          stale \in BOOLEAN :
          publish = [phase |-> "called", repo_url |-> repo_url,
                     token |-> token, files |-> files, written |-> 0,
                     dir |-> stale, created |-> FALSE, pushed |-> FALSE,
                     error |-> None, cleanup |-> "none"]

NextRepo ==
    \/ CheckArguments
    \/ Clone
    \/ Branch
    \/ WriteFile
    \/ CommitPush
    \/ Cleanup

SpecRepo == InitRepo /\ [][NextRepo]_vars

NextCache ==
    \/ \E u \in CacheUrls, h \in CacheHtmls : CacheGet(u, h)
    \/ \E u \in CacheUrls, h \in CacheHtmls, p \in Payloads, o \in PutOutcomes :
          CachePut(u, h, p, o)
    \/ Tick

SpecCache == InitCache /\ [][NextCache]_vars

\* Calls of analyze_page, and the passing of time between them.
NextAnalyze ==
    \/ \E u \in AnalyzeUrls, h \in AnalyzeHtmls, use_cache \in BOOLEAN,
           read_ok \in BOOLEAN, extract_ok \in BOOLEAN, p \in Payloads,
           o \in PutOutcomes :
          AnalyzePage(u, h, use_cache, read_ok, extract_ok, p, o)
    \/ \E u \in AnalyzeUrls \cup {<<>>}, h \in AnalyzeHtmls \cup {<<>>},
           use_cache \in BOOLEAN :
          AnalyzeInvalid(u, h, use_cache)
    \/ Tick

SpecAnalyze == InitCache /\ [][NextAnalyze]_vars

\* The event loop keeps running a coroutine that can take a step.
FairSpecCrawl == SpecCrawl /\ WF_vars(NextCrawl)

(***************************************************************************)
(* What the trace says.                                                    *)
(***************************************************************************)
\* The URLs of run r's events of the kinds `kinds` in `events`, in order.
UrlsOf(events, kinds, r) ==
    LET chosen == SelectSeq(events, LAMBDA e : e[1] \in kinds /\ e[2] = r)
    IN [i \in 1..Len(chosen) |-> chosen[i][3]]

Count(seq, x) == Cardinality({i \in DOMAIN seq : seq[i] = x})

NoDup(seq) == \A i, j \in DOMAIN seq : seq[i] = seq[j] => i = j

FetchedSeq(r) == UrlsOf(trace, {"fetch"}, r)
FetchedSet(r) == SeqToSet(FetchedSeq(r))
AlreadySet(r) == SeqToSet(UrlsOf(trace, {"already"}, r))
FailedSet(r) == SeqToSet(UrlsOf(trace, {"fetch_failed"}, r))
StoreCalls(r) == UrlsOf(trace, {"insert", "insert_error"}, r)
EnqueuedLog(r) == <<start_url[r]>> \o UrlsOf(trace, {"enqueue"}, r)
PoppedLog(r) == UrlsOf(trace, {"pop", "pop_dup"}, r)

Domain(r) == Netloc(start_url[r])

SameDomainEdges(edges, domain) ==
    SelectSeq(edges, LAMBDA e : Netloc(e[2]) = domain)

\* The URLs reachable from the start URL by same-domain links only.
Reachable(r) ==
    ReachableVia(SameDomainEdges(site, Domain(r)), {start_url[r]})

\* The same-domain links of the pages run r fetched and listed.
FollowedEdges(r) ==
    SelectSeq(SameDomainEdges(site, Domain(r)),
              LAMBDA e : e[1] \in SeqToSet(crawled_pages[r]))

\* More than any path of the site has links.
Unreached == MaxSiteLinks + 2

RECURSIVE Dist(_, _, _, _)
\* The number of links of `edges` on a shortest path from `found` to url.
Dist(edges, found, url, k) ==
    IF url \in found THEN k
    ELSE LET more == found \cup
                     {e[2] : e \in {x \in SeqToSet(edges) : x[1] \in found}}
         IN IF more = found THEN Unreached
            ELSE Dist(edges, more, url, k + 1)

Depth(r, url) == Dist(FollowedEdges(r), {start_url[r]}, url, 0)

RECURSIVE TakeEnqueues(_)
\* The URLs of the enqueue events `events` starts with.
TakeEnqueues(events) ==
    IF events = <<>> \/ Head(events)[1] # "enqueue" THEN <<>>
    ELSE <<Head(events)[3]>> \o TakeEnqueues(Tail(events))

\* The set run r had visited before event i.
VisitedBefore(r, i) ==
    {trace[j][3] : j \in {k \in 1..(i - 1) : trace[k][1] = "pop" /\ trace[k][2] = r}}

\* The links of the page fetched at event i that are in the start URL's
\* domain and were not visited then, in document order.
ExpectedEnqueues(i) ==
    LET r == trace[i][2]
    IN SelectSeq(SelectOf(site, trace[i][3]),
                 LAMBDA h : Netloc(h) = Domain(r) /\ h \notin VisitedBefore(r, i))

\* The enqueue events that follow the store call made after event i.
BlockEnqueues(i) == TakeEnqueues(SubSeq(trace, i + 2, Len(trace)))

StoreCallKinds == {"insert", "insert_error"}

(***************************************************************************)
(* C1 (as stated): when crawl_website ends, the set of URLs it fetched is  *)
(* exactly the set reachable from the start URL by same-domain links, each *)
(* fetched at most once.                                                   *)
(***************************************************************************)
C1_FetchedIsReachable ==
    \A r \in Runs :
        pc[r] = "crawl_done" =>
            /\ FetchedSet(r) = Reachable(r)
            /\ NoDup(FetchedSeq(r))

(***************************************************************************)
(* C1 (amended): when crawl_website ends, every URL it fetched is          *)
(* reachable from the start URL by same-domain links and was fetched at    *)
(* most once; the fetched set is the whole reachable set when the page     *)
(* store reported no URL as already crawled and no fetch failed.           *)
(***************************************************************************)
C1_FetchedWithinReachable ==
    \A r \in Runs :
        pc[r] = "crawl_done" =>
            /\ FetchedSet(r) \subseteq Reachable(r)
            /\ NoDup(FetchedSeq(r))
            /\ (AlreadySet(r) = {} /\ FailedSet(r) = {}) =>
                    FetchedSet(r) = Reachable(r)

\* A finished crawl of three or more pages with a link out of the domain,
\* nothing skipped and nothing failed.
C1_Witness ==
    \E r \in Runs :
        /\ pc[r] = "crawl_done"
        /\ AlreadySet(r) = {} /\ FailedSet(r) = {}
        /\ Cardinality(FetchedSet(r)) >= 3
        /\ \E i \in DOMAIN site : site[i][2] = UrlExt

(***************************************************************************)
(* C2: in one crawl run no URL is fetched more than once: a URL is added   *)
(* to visited at most once, and a fetch (or an isCrawled question) is only *)
(* ever made for the URL just added to visited, never for a dequeued URL   *)
(* that was visited already.                                               *)
(***************************************************************************)
C2_FetchedAtMostOnce ==
    \A r \in Runs :
        /\ NoDup(FetchedSeq(r))
        /\ NoDup(UrlsOf(trace, {"pop"}, r))
        /\ \A i \in DOMAIN trace :
              (trace[i][2] = r /\ trace[i][1] = "fetch") =>
                  /\ i > 1
                  /\ trace[i - 1] = Ev("pop", r, trace[i][3])

\* A URL that was dequeued a second time and dropped, and fetched once.
C2_Witness ==
    \E r \in Runs : \E u \in Pages :
        /\ pc[r] = "crawl_done"
        /\ Count(UrlsOf(trace, {"pop_dup"}, r), u) >= 1
        /\ Count(FetchedSeq(r), u) = 1

(***************************************************************************)
(* C3: the frontier is first-in-first-out (the URLs dequeued so far are    *)
(* the first ones enqueued, in that order, and the queue holds the rest),  *)
(* and of two fetched URLs the one fetched earlier is not farther from the *)
(* start URL, counted in links the crawl followed, than the later one.     *)
(***************************************************************************)
C3_BreadthFirst ==
    \A r \in Runs :
        LET enq == EnqueuedLog(r)
            popped == PoppedLog(r)
            fetched == FetchedSeq(r)
        IN /\ Len(popped) <= Len(enq)
           /\ popped = SubSeq(enq, 1, Len(popped))
           /\ to_crawl[r] = SubSeq(enq, Len(popped) + 1, Len(enq))
           /\ \A i, j \in DOMAIN fetched :
                 i < j => Depth(r, fetched[i]) <= Depth(r, fetched[j])
           /\ \A i \in DOMAIN fetched : Depth(r, fetched[i]) < Unreached

\* A finished crawl that fetched two pages at distance one and then a page
\* at distance two.
C3_Witness ==
    \E r \in Runs :
        LET fetched == FetchedSeq(r)
        IN /\ pc[r] = "crawl_done"
           /\ Len(fetched) = 4
           /\ Depth(r, fetched[2]) = 1 /\ Depth(r, fetched[3]) = 1
           /\ Depth(r, fetched[4]) = 2

(***************************************************************************)
(* C4: a link is appended to the queue only if its netloc equals the       *)
(* start URL's; no URL of another domain is ever enqueued, dequeued,       *)
(* marked visited or fetched.                                              *)
(***************************************************************************)
C4_SameDomainOnly ==
    \A r \in Runs :
        /\ \A i \in DOMAIN trace :
              trace[i][2] = r => Netloc(trace[i][3]) = Domain(r)
        /\ \A u \in visited[r] \cup SeqToSet(to_crawl[r]) :
              Netloc(u) = Domain(r)

\* Scenario A: the start page links to /a and to y.test, nothing is stored
\* beforehand; the crawl ended having fetched the start page and /a.
C4_Witness ==
    \E r \in Runs :
        /\ site = <<<<UrlRoot, UrlA>>, <<UrlRoot, UrlExt>>>>
        /\ pc[r] = "crawl_done"
        /\ FetchedSet(r) = {UrlRoot, UrlA}
        /\ SeqToSet(crawled_pages[r]) = {UrlRoot, UrlA}

(***************************************************************************)
(* C5 (as stated): a URL is appended only if it is not already queued, so  *)
(* the queue never holds a URL twice.                                      *)
(***************************************************************************)
C5_QueueHoldsNoUrlTwice == \A r \in Runs : NoDup(to_crawl[r])

(***************************************************************************)
(* C5 (amended): the links of a fetched page that are appended, at the     *)
(* tail and in document order, are exactly those in the start URL's domain *)
(* that are not in the visited set then, whether or not they are queued    *)
(* already; the queue holds no URL that was visited when it was appended.  *)
(***************************************************************************)
C5_EnqueueGate ==
    /\ \A i \in DOMAIN trace :
          trace[i][1] = "fetch_ok" => BlockEnqueues(i) = ExpectedEnqueues(i)
    /\ \A i \in DOMAIN trace :
          trace[i][1] = "enqueue" =>
              trace[i][3] \notin VisitedBefore(trace[i][2], i)
    /\ \A r \in Runs :
          to_crawl[r] = SubSeq(EnqueuedLog(r), Len(PoppedLog(r)) + 1,
                               Len(EnqueuedLog(r)))

\* A page was fetched while one of its links was in the queue already, and
\* the link was appended again.
C5_Witness ==
    \E r \in Runs : \E u \in Pages :
        /\ pc[r] = "crawl_loop"
        /\ Count(to_crawl[r], u) = 2
        /\ u \notin visited[r]
        /\ trace[Len(trace)] = Ev("enqueue", r, u)

(***************************************************************************)
(* C6: a dequeued URL the page store reports as already crawled is marked  *)
(* visited, is not fetched in this run, and nothing is stored for it.      *)
(***************************************************************************)
C6_AlreadyCrawledSkipped ==
    \A r \in Runs : \A u \in AlreadySet(r) :
        /\ u \in visited[r]
        /\ Count(FetchedSeq(r), u) = 0
        /\ Count(StoreCalls(r), u) = 0
        /\ Count(crawled_pages[r], u) = 0
        /\ cur[r] # u

\* A finished crawl in which a linked page was reported already crawled
\* while the start page was fetched.
C6_Witness ==
    \E r \in Runs :
        /\ pc[r] = "crawl_done"
        /\ AlreadySet(r) # {}
        /\ start_url[r] \in FetchedSet(r)

(***************************************************************************)
(* C8: a fetch that raises or reports failure does not stop the loop: the  *)
(* URL stays visited, is not fetched again, nothing is stored for it, the  *)
(* crawl ends only with an empty queue, and whatever is in the queue after *)
(* the failure is dequeued later.                                          *)
(***************************************************************************)
C8_FailedFetchState ==
    \A r \in Runs :
        /\ \A u \in FailedSet(r) :
              /\ u \in visited[r]
              /\ Count(FetchedSeq(r), u) = 1
              /\ Count(StoreCalls(r), u) = 0
              /\ Count(crawled_pages[r], u) = 0
        /\ pc[r] = "crawl_done" => to_crawl[r] = <<>>

C8_FetchFailureIsolated ==
    /\ []C8_FailedFetchState
    /\ \A r \in Runs :
          (FailedSet(r) # {} /\ to_crawl[r] # <<>>) ~> (to_crawl[r] = <<>>)

\* A fetch failed while the queue held a URL, which was fetched afterwards.
C8_Witness ==
    \E r \in Runs :
        /\ pc[r] = "crawl_done"
        /\ \E i, j \in DOMAIN trace :
              /\ i < j
              /\ trace[i][1] = "fetch_failed"
              /\ trace[j][1] = "fetch_ok"
              /\ trace[i][3] # start_url[r]

(***************************************************************************)
(* C9: the store call for a fetched page comes before any of the page's    *)
(* links is enqueued, and a store call that fails changes neither the      *)
(* links enqueued nor the loop's going on.                                 *)
(***************************************************************************)
C9_StoreBeforeLinks ==
    /\ \A i \in DOMAIN trace :
          trace[i][1] = "fetch_ok" =>
              /\ i < Len(trace)
              /\ trace[i + 1][1] \in StoreCallKinds
              /\ trace[i + 1][2] = trace[i][2]
              /\ trace[i + 1][3] = trace[i][3]
              /\ BlockEnqueues(i) = ExpectedEnqueues(i)
              /\ Count(crawled_pages[trace[i][2]], trace[i][3]) = 1
    /\ \A i \in DOMAIN trace :
          trace[i][1] = "enqueue" =>
              /\ i > 1
              /\ trace[i - 1][1] \in StoreCallKinds \cup {"enqueue"}
    /\ \A r \in Runs : pc[r] = "crawl_done" => to_crawl[r] = <<>>

\* The store call for the start page failed; a page it links to was
\* enqueued all the same and fetched later.
C9_Witness ==
    \E r \in Runs :
        /\ pc[r] = "crawl_done"
        /\ Len(trace) >= 5
        /\ trace[4] = Ev("insert_error", r, start_url[r])
        /\ trace[5][1] = "enqueue"
        /\ trace[5][3] \in FetchedSet(r)

(***************************************************************************)
(* C7: a URL the crawl skipped as already crawled is still resolved from   *)
(* the page store in the same run's pipeline, also in a run that fetched   *)
(* other URLs.  (Stated for the runs that fetched and listed a URL.)       *)
(***************************************************************************)
C7_SkippedUrlStillProcessed ==
    \A r \in Runs :
        (pc[r] = "done" /\ crawled_pages[r] # <<>>) =>
            \A u \in AlreadySet(r) :
                Count(UrlsOf(trace, {"resolve"}, r), u) >= 1

HoldsEntry(file) == file # None /\ JsonLoads(file.value)

EntryAge(file, time) == time - FromIsoFormat(JsonLoad(file.value).timestamp)

GetStep(k) ==
    /\ got'.called
    /\ got'.key = k
    /\ \E u \in CacheUrls, h \in CacheHtmls :
          get_cache_key(u, h) = k /\ CacheGet(u, h)

PutStep(k) ==
    ~got'.called /\
    \E u \in CacheUrls, h \in CacheHtmls, p \in Payloads, o \in PutOutcomes :
        get_cache_key(u, h) = k /\ CachePut(u, h, p, o)

C12_HtmlChangeMisses ==
    /\ \A u \in CacheUrls : \A h1, h2 \in CacheHtmls :
          h1 # h2 => get_cache_key(u, h1) # get_cache_key(u, h2)
    /\ (got.called /\ got.value # None /\ last_put[got.key] # None) =>
          ~(/\ last_put[got.key].value.url = got.url
            /\ last_put[got.key].value.html # got.html)

\* An entry is stored for ("u", "h") and is not yet CACHE_DURATION old; the
\* lookup for ("u", "hh") is a miss.
C12_Witness ==
    /\ got.called
    /\ got.url = <<"u">> /\ got.html = <<"h", "h">>
    /\ got.value = None
    /\ last_put[get_cache_key(<<"u">>, <<"h">>)] # None
    /\ HoldsEntry(cache_files[get_cache_key(<<"u">>, <<"h">>)])
    /\ now - last_put[get_cache_key(<<"u">>, <<"h">>)].value.at < CACHE_DURATION

(***************************************************************************)
(* C13: two (url, html) pairs that differ in either component have         *)
(* different cache keys, so that a lookup never returns an entry that was  *)
(* stored for another pair; in particular not one stored for another url.  *)
(***************************************************************************)
C13_DistinctPairsDistinctKeys ==
    /\ (got.called /\ got.value # None /\ last_put[got.key] # None) =>
          /\ last_put[got.key].value.url = got.url
          /\ last_put[got.key].value.html = got.html
    /\ \A u1, u2 \in CacheUrls : \A h1, h2 \in CacheHtmls :
          <<u1, h1>> # <<u2, h2>> => get_cache_key(u1, h1) # get_cache_key(u2, h2)

(***************************************************************************)
(* C14 (as stated): a call of analyze_page with the cache enabled, made no *)
(* later than CACHE_DURATION after a call with the same (url, html) and    *)
(* the cache enabled that computed and returned a result, returns that     *)
(* result from the cache, extracts nothing and writes no cache file.       *)
(***************************************************************************)
C14_SecondCallServedFromCache ==
    (/\ analysis.called
     /\ analysis.use_cache
     /\ analysis.prior # None
     /\ analysis.prior.value.use_cache
     /\ now - analysis.prior.value.at <= CACHE_DURATION)
    => /\ ~analysis.extracted
       /\ ~analysis.wrote
       /\ analysis.result = Result(analysis.prior.value.result)

(***************************************************************************)
(* C14 (amended): the same, for a first call whose cache write succeeded   *)
(* and a second call that can read the cache file; the second call also    *)
(* leaves the cache file as it found it.                                   *)
(***************************************************************************)
C14_SecondCallServedFromWrittenCache ==
    (/\ analysis.called
     /\ analysis.use_cache
     /\ analysis.looked
     /\ analysis.prior # None
     /\ analysis.prior.value.use_cache
     /\ analysis.prior.value.put_ok
     /\ now - analysis.prior.value.at <= CACHE_DURATION)
    => /\ ~analysis.extracted
       /\ ~analysis.wrote
       /\ analysis.result = Result(analysis.prior.value.result)
       /\ cache_files[get_cache_key(analysis.url, analysis.html)] = analysis.file

\* Scenario B at the edge of the window: the second call comes exactly
\* CACHE_DURATION after the first and is served from the cache.
C14_Witness ==
    /\ analysis.called
    /\ analysis.use_cache
    /\ analysis.looked
    /\ analysis.prior # None
    /\ analysis.prior.value.use_cache
    /\ analysis.prior.value.put_ok
    /\ now - analysis.prior.value.at = CACHE_DURATION
    /\ ~analysis.extracted
    /\ analysis.result = Result(analysis.prior.value.result)

(***************************************************************************)
(* C15: a cache file that cannot be read or does not load makes            *)
(* analyze_page compute the result afresh, and a cache write that fails    *)
(* changes nothing in what analyze_page returns: whenever the result is    *)
(* computed, it is returned, however the write ends.                       *)
(***************************************************************************)
C15_CacheFailuresNotFatal ==
    analysis.called =>
        /\ (analysis.use_cache /\ analysis.file # None
            /\ (~analysis.looked \/ ~JsonLoads(analysis.file.value))) =>
                analysis.extracted
        /\ analysis.computed # None =>
                analysis.result = Result(analysis.computed.value)
        /\ analysis.result.error =>
                (analysis.extracted /\ analysis.computed = None)

\* A call that found a file cut short, computed the result, failed to
\* write it and returned it.
C15_Witness ==
    /\ analysis.called
    /\ analysis.use_cache
    /\ analysis.file = Some(CutShort)
    /\ analysis.extracted
    /\ analysis.wrote
    /\ analysis.put_outcome = "open_fails"
    /\ analysis.computed # None
    /\ analysis.result = Result(analysis.computed.value)

(***************************************************************************)
(* What the trace says of the pipeline.                                    *)
(***************************************************************************)
Resolved(r) == UrlsOf(trace, {"resolve"}, r)

\* The list main.py's loop walks over: what crawl_website returned or, if
\* that is empty, what get_page_urls_by_origin returned.
ProcessingList(r) ==
    IF crawled_pages[r] # <<>> THEN crawled_pages[r] ELSE ResponseParts

Happened(kind, r, url) == \E i \in DOMAIN trace : trace[i] = Ev(kind, r, url)

\* The paths in the artifact map that were set while url was processed.
FilesOf(r, url) ==
    {files_to_add[r][i][1] :
        i \in {j \in DOMAIN files_to_add[r] : files_to_add[r][j][2] = url}}

TwoFiles(r, url) ==
    {PomFile(PagePath(url, start_url[r])), TestFile(PagePath(url, start_url[r]))}

Publishes(r) ==
    {i \in DOMAIN trace : trace[i][1] = "publish" /\ trace[i][2] = r}

StageKinds ==
    {"resolve", "analyze", "normalize", "generate", "validate", "collect",
     "emit"}

FailureKinds ==
    {"no_html", "analyze_failed", "generate_error", "validate_error",
     "validate_failed", "emit_error"}

(***************************************************************************)
(* C16: whatever stage fails for a URL, the loop goes on: the URLs         *)
(* resolved so far and those still to do are always the whole processing   *)
(* list, and the run ends with every URL of the list resolved; a URL that  *)
(* reached the collection of its files has its two files in the artifact   *)
(* map, and a URL whose analysis failed or returned an error has none.     *)
(***************************************************************************)
C16_FailureIsolation ==
    \A r \in Runs :
        /\ pc[r] = "pipeline" => Resolved(r) \o todo[r] = ProcessingList(r)
        /\ (pc[r] \in {"done", "failed"} /\ Resolved(r) # <<>>) =>
                Resolved(r) = ProcessingList(r)
        /\ \A u \in SeqToSet(Resolved(r)) :
              /\ Happened("collect", r, u) => FilesOf(r, u) = TwoFiles(r, u)
              /\ ~Happened("collect", r, u) => FilesOf(r, u) = {}
              /\ Happened("analyze_failed", r, u) =>
                    (~Happened("collect", r, u) /\ ~Happened("generate", r, u))

\* The run is over; the analysis of the start page failed, and the page
\* after it went through every stage and has its two files in the map.
C16_Witness ==
    \E r \in Runs :
        /\ pc[r] = "done"
        /\ Resolved(r) = <<UrlRoot, UrlA>>
        /\ Happened("analyze_failed", r, UrlRoot)
        /\ Happened("emit", r, UrlA)
        /\ ~Happened("emit_error", r, UrlA)
        /\ FilesOf(r, UrlA) = TwoFiles(r, UrlA)
        /\ Len(files_to_add[r]) = 2

(***************************************************************************)
(* C17: a URL whose record cannot be had from the page store, or whose     *)
(* record has empty html, is skipped when it is resolved: no analysis,     *)
(* generation, validation, collection or emission is made for it and the   *)
(* artifact map has no file of it, while the URLs after it are resolved.   *)
(***************************************************************************)
C17_NoHtmlSkipped ==
    \A r \in Runs :
        /\ \A u \in SeqToSet(Resolved(r)) :
              /\ (RowsOf(pages_db, u) = <<>> \/ RowsOf(pages_db, u)[1].html = "")
                    => Happened("no_html", r, u)
              /\ Happened("no_html", r, u) =>
                    /\ \A k \in StageKinds \ {"resolve"} : ~Happened(k, r, u)
                    /\ FilesOf(r, u) = {}
        /\ pc[r] = "pipeline" => Resolved(r) \o todo[r] = ProcessingList(r)
        /\ (pc[r] = "done" /\ Resolved(r) # <<>>) =>
                Resolved(r) = ProcessingList(r)

\* Scenario C: the start page's record has empty html and is skipped; the
\* page after it has its files collected.
C17_Witness ==
    \E r \in Runs :
        /\ pc[r] = "done"
        /\ UrlRoot \in blank_pages
        /\ RowsOf(pages_db, UrlRoot) # <<>>
        /\ Resolved(r) = <<UrlRoot, UrlA>>
        /\ Happened("no_html", r, UrlRoot)
        /\ FilesOf(r, UrlA) = TwoFiles(r, UrlA)

(***************************************************************************)
(* C18: when the validation's call of the language model fails for a URL,  *)
(* the processing of the URL stops there: its files are not collected and  *)
(* nothing is emitted for it.                                              *)
(***************************************************************************)
C18_ValidationFailureStops ==
    \A r \in Runs : \A u \in SeqToSet(Resolved(r)) :
        Happened("validate_failed", r, u) =>
            /\ ~Happened("collect", r, u)
            /\ ~Happened("emit", r, u)
            /\ FilesOf(r, u) = {}

(***************************************************************************)
(* C19: integrate_with_repo is called at most once in a run, only when no  *)
(* URL is left to process, and then with the whole, non-empty artifact     *)
(* map; a run that ends after its loop has called it once if a URL had its *)
(* files collected, and not at all if none had.                            *)
(***************************************************************************)
C19_PublishOnceAtEnd ==
    \A r \in Runs :
        /\ Cardinality(Publishes(r)) <= 1
        /\ \A i \in Publishes(r) :
              /\ todo[r] = <<>>
              /\ pc[r] \notin {"pipeline", "crawl_loop", "crawl_await"}
              /\ Resolved(r) = ProcessingList(r)
              /\ trace[i][4] = files_to_add[r]
              /\ trace[i][4] # <<>>
              /\ \A j \in DOMAIN trace :
                    (j > i /\ trace[j][2] = r) => trace[j][1] = "publish_error"
        /\ pc[r] = "done" =>
              Cardinality(Publishes(r)) =
                  IF \E u \in SeqToSet(Resolved(r)) : Happened("collect", r, u)
                  THEN 1 ELSE 0
        /\ pc[r] # "done" => Publishes(r) = {}

\* A run of two URLs, the first of which stopped before its files were
\* collected, ended with one call, made with the two files of the second.
C19_Witness ==
    \E r \in Runs :
        /\ pc[r] = "done"
        /\ Resolved(r) = <<UrlRoot, UrlA>>
        /\ ~Happened("collect", r, UrlRoot)
        /\ Cardinality(Publishes(r)) = 1
        /\ \A i \in Publishes(r) : Len(trace[i][4]) = 2

StagePositions(r) ==
    {i \in DOMAIN trace : trace[i][2] = r /\ trace[i][1] \in StageKinds}

\* The place of a stage in an order of the stages.
RankIn(order, kind) == CHOOSE i \in DOMAIN order : order[i] = kind

\* The position of the last stage event before position j (0 if none is
\* there): a failure logged for a stage sits between it and the next.
StageBefore(j) ==
    IF j > 1 /\ trace[j - 1][1] \in FailureKinds THEN j - 2 ELSE j - 1

\* In the trace the stages of each URL are in the given order, none made
\* twice and none made without those before it: every stage but the first
\* comes right after the stage before it in the order, made for the same
\* URL.  The first stage of a URL is made once, so that the stages of a URL
\* are all made before the next URL is resolved.
StagesFollow(order) ==
    \A r \in Runs :
        \A j \in StagePositions(r) :
            IF trace[j][1] = order[1]
            THEN \A i \in 1..(j - 1) :
                    (trace[i][2] = r
                       /\ trace[i][1] \in StageKinds \cup FailureKinds)
                        => trace[i][3] # trace[j][3]
            ELSE /\ StageBefore(j) >= 1
                 /\ trace[StageBefore(j)] =
                        Ev(order[RankIn(order, trace[j][1]) - 1], r, trace[j][3])

(***************************************************************************)
(* C23 (as stated): the stages of a URL are made in the order resolve,     *)
(* analyze, normalize, validate, generate, collect, emit: the test code of *)
(* a URL is not generated before its validation was called.                *)
(***************************************************************************)
C23_ValidateBeforeGenerate ==
    StagesFollow(<<"resolve", "analyze", "normalize", "validate", "generate",
                   "collect", "emit">>)

(***************************************************************************)
(* C23 (amended): the stages of a URL are made in the order resolve,       *)
(* analyze, normalize, generate the test code, validate, collect the two   *)
(* files, emit: the validation of a URL is called only after its test     *)
(* code was generated.  No stage is made twice for a URL or without the    *)
(* stages before it, and a URL's stages are all made before the next URL   *)
(* is resolved.                                                            *)
(***************************************************************************)
C23_GenerateBeforeValidate ==
    StagesFollow(<<"resolve", "analyze", "normalize", "generate", "validate",
                   "collect", "emit">>)

\* Two URLs went through every stage, one after the other.
C23_Witness ==
    \E r \in Runs :
        /\ Resolved(r) = <<UrlRoot, UrlA>>
        /\ Happened("validate", r, UrlRoot)
        /\ Happened("emit", r, UrlRoot)
        /\ Happened("generate", r, UrlA)
        /\ Happened("validate", r, UrlA)
        /\ Happened("emit", r, UrlA)

(***************************************************************************)
(* C26: a call of analyze_page that returns the error marker or raises     *)
(* writes no cache file: the only thing it may do to the cache is what the *)
(* lookup does, the removal of the expired file of its own (url, html);    *)
(* every other file, and the file of its (url, html) if it is not expired, *)
(* is left as it was.  So every cache file was written by a call that      *)
(* built a result, a call served from the cache never returns the error    *)
(* marker, and the call after a failed one extracts again unless a file    *)
(* written by an earlier successful call serves it.                        *)
(***************************************************************************)
C26_FailedCall ==
    /\ analysis'.called
    /\ analysis' # analysis
    /\ (analysis'.result.error \/ analysis'.raised)

C26_FailedCallLeavesCache ==
    C26_FailedCall =>
        /\ ~analysis'.wrote
        /\ last_put' = last_put
        /\ analysed' = analysed
        /\ \A k \in CacheKeys :
              \/ cache_files'[k] = cache_files[k]
              \/ /\ analysis'.looked
                 /\ ~analysis'.raised
                 /\ k = get_cache_key(analysis'.url, analysis'.html)
                 /\ cache_files'[k] = None
                 /\ cache_files[k] # None
                 /\ JsonLoads(cache_files[k].value)
                 /\ Expired(now - FromIsoFormat(
                                     JsonLoad(cache_files[k].value).timestamp))

C26_CacheHoldsNoError ==
    /\ \A u \in AnalyzeUrls, h \in AnalyzeHtmls :
          cache_files[get_cache_key(u, h)] # None => analysed[<<u, h>>] # None
    /\ analysis.called =>
          /\ (~analysis.extracted /\ ~analysis.raised) =>
                (~analysis.result.error /\ analysis.result.value \in Payloads)
          /\ analysis.result.error => (analysis.extracted /\ ~analysis.wrote)
          /\ analysis.raised => (~analysis.extracted /\ ~analysis.wrote
                                 /\ ~analysis.looked)

C26_OnlySuccessIsCached ==
    [](C26_CacheHoldsNoError) /\ [][C26_FailedCallLeavesCache]_vars

\* A call with the cache in use found no file, failed in the extraction and
\* returned the error marker; no file is there after it.
C26_Witness ==
    /\ analysis.called
    /\ analysis.use_cache
    /\ analysis.looked
    /\ analysis.file = None
    /\ analysis.extracted
    /\ analysis.result = ErrorMarker
    /\ cache_files[get_cache_key(analysis.url, analysis.html)] = None
    /\ analysed[<<analysis.url, analysis.html>>] = None

(***************************************************************************)
(* C27: on every site considered (with cycles and self-links), whatever    *)
(* fetches fail and whatever the page store answers, the crawl loop comes  *)
(* to an empty queue and returns.  All along, every URL put into the queue *)
(* is either still in it or was popped, the URLs enqueued after the start  *)
(* URL are no more than the links on the pages fetched with success, and   *)
(* the pops are no more than one more than the links of the site.          *)
(***************************************************************************)
C27_LinksOnFetchedPages(r) ==
    LET fetched == SeqToSet(UrlsOf(trace, {"fetch_ok"}, r))
    IN Cardinality({i \in DOMAIN site : site[i][1] \in fetched})

C27_QueueAccount ==
    \A r \in Runs :
        LET popped == Len(PoppedLog(r))
            enqueued == Len(EnqueuedLog(r))
        IN /\ popped + Len(to_crawl[r]) = enqueued
           /\ enqueued - 1 <= C27_LinksOnFetchedPages(r)
           /\ popped <= 1 + Len(site)

C27_CrawlTerminates ==
    /\ []C27_QueueAccount
    /\ \A r \in Runs : <>(pc[r] = "crawl_done" /\ to_crawl[r] = <<>>)

\* The crawl returned on a site where the start page links to itself and a
\* page links back to the start page: of the three links on the two pages
\* fetched, one was enqueued.
C27_Witness ==
    \E r \in Runs :
        /\ pc[r] = "crawl_done"
        /\ \E i \in DOMAIN site : site[i] = <<UrlRoot, UrlRoot>>
        /\ \E i \in DOMAIN site : site[i] = <<UrlA, UrlRoot>>
        /\ UrlA \in SeqToSet(crawled_pages[r])
        /\ Len(PoppedLog(r)) = 2
        /\ Len(EnqueuedLog(r)) = 2
        /\ C27_LinksOnFetchedPages(r) = 3
        /\ to_crawl[r] = <<>>

(***************************************************************************)
(* C28: a run has two phases.  No URL is resolved, analysed or validated   *)
(* (and no other stage is made) while the crawl loop runs: when a stage    *)
(* event is in the trace the crawl has returned, with its queue empty and  *)
(* no fetch awaited.  No pop, fetch or store insert follows a stage event: *)
(* the calls of the crawl come first in the trace, one after the other.    *)
(* The URLs resolved are, in order, the list the crawl returned or, if it  *)
(* returned none, the list the page store gave: a prefix of it while the   *)
(* loop runs, with the rest still to do, and the whole of it at the end.   *)
(***************************************************************************)
CrawlKinds ==
    {"pop", "pop_dup", "already", "fetch", "fetch_failed", "fetch_ok", "insert",
     "insert_error", "enqueue"}

C28_TwoPhases ==
    \A r \in Runs :
        /\ \A j \in 2..Len(trace) :
              (trace[j][2] = r /\ trace[j][1] \in CrawlKinds) =>
                  (trace[j - 1][2] = r /\ trace[j - 1][1] \in CrawlKinds)
        /\ (\E i \in DOMAIN trace :
                trace[i][2] = r /\ trace[i][1] \in StageKinds \cup FailureKinds)
              => /\ pc[r] \in {"pipeline", "done"}
                 /\ to_crawl[r] = <<>>
                 /\ cur[r] = NoUrl
        /\ pc[r] \in {"new", "crawl_loop", "crawl_await", "crawl_done"} =>
              (todo[r] = <<>> /\ files_to_add[r] = <<>>)
        /\ pc[r] = "pipeline" =>
              /\ Resolved(r) \o todo[r] = ProcessingList(r)
              /\ crawled_pages[r] # <<>> =>
                    Resolved(r) \o todo[r] = StoreCalls(r)
        /\ (pc[r] = "done" /\ ~Happened("no_data", r, start_url[r])) =>
              Resolved(r) = ProcessingList(r)

\* A run crawled two pages, then resolved both in the order in which the
\* crawl had stored them.
C28_Witness ==
    \E r \in Runs :
        /\ pc[r] = "done"
        /\ crawled_pages[r] = <<UrlRoot, UrlA>>
        /\ Resolved(r) = <<UrlRoot, UrlA>>
        /\ Happened("analyze", r, UrlA)

(***************************************************************************)
(* C29: when the crawl returned no URL and the page store has no record of *)
(* the start URL (or does not answer), the run ends there: no URL is       *)
(* resolved and no stage is made, the output directory is not asked for,   *)
(* no file is collected and integrate_with_repo is not called.  The list   *)
(* of the stored pages is asked for only when the crawl returned no URL at *)
(* all and the start URL has a record; a crawl that returned a URL is      *)
(* followed by neither question.                                           *)
(***************************************************************************)
C29_EndedEmpty(r) ==
    /\ pc[r] = "done"
    /\ trace[Len(trace)] = Ev("no_data", r, start_url[r])
    /\ \A i \in DOMAIN trace :
          trace[i][1] \notin
              StageKinds \cup FailureKinds \cup
              {"makedirs_error", "listing_error", "fallback", "no_files",
               "publish", "publish_error"}
    /\ todo[r] = <<>>
    /\ files_to_add[r] = <<>>
    /\ Publishes(r) = {}

C29_NothingToProcess ==
    \A r \in Runs :
        /\ (pc[r] \in {"pipeline", "done", "failed"}
            /\ ~Happened("construct_error", r, start_url[r])
            /\ crawled_pages[r] = <<>>
            /\ RowsOf(pages_db, start_url[r]) = <<>>) => C29_EndedEmpty(r)
        /\ Happened("no_data", r, start_url[r]) =>
              (C29_EndedEmpty(r) /\ crawled_pages[r] = <<>>)
        /\ Happened("fallback", r, start_url[r]) =>
              /\ crawled_pages[r] = <<>>
              /\ RowsOf(pages_db, start_url[r]) # <<>>
              /\ UrlsOf(trace, {"fetch_ok"}, r) = <<>>
        /\ crawled_pages[r] # <<>> =>
              /\ ~Happened("fallback", r, start_url[r])
              /\ ~Happened("no_data", r, start_url[r])

\* The fetch of the start page failed and the store has no record of it:
\* the run is over, nothing having been done after the crawl.
C29_Witness ==
    \E r \in Runs :
        /\ pc[r] = "done"
        /\ FailedSet(r) = {start_url[r]}
        /\ crawled_pages[r] = <<>>
        /\ RowsOf(pages_db, start_url[r]) = <<>>
        /\ Happened("no_data", r, start_url[r])
        /\ files_to_add[r] = <<>>

(***************************************************************************)
(* C30: the two files of a URL are put into the artifact map together,     *)
(* before generate_outputs is called for the URL: the map never has one    *)
(* without the other, and an emission is always preceded by the collection *)
(* of the URL's files.  A failure of generate_outputs takes nothing out of *)
(* the map: the URL's two files stay in it, integrate_with_repo is called  *)
(* at the end of the run, and the files are in what it is called with.     *)
(***************************************************************************)
C30_FilesSurviveEmitFailure ==
    \A r \in Runs :
        /\ \A j \in DOMAIN trace :
              (trace[j][1] = "emit" /\ trace[j][2] = r) =>
                  /\ j > 1
                  /\ trace[j - 1] = Ev("collect", r, trace[j][3])
        /\ \A u \in SeqToSet(Resolved(r)) :
              LET files == FilesOf(r, u)
                  both == TwoFiles(r, u)
                  emitted == Happened("emit", r, u)
                  emit_failed == Happened("emit_error", r, u)
              IN /\ files \in {{}, both}
                 /\ emitted => files = both
                 /\ emit_failed =>
                       /\ emitted
                       /\ files = both
                       /\ pc[r] \in {"pipeline", "done"}
                       /\ pc[r] = "done" => Cardinality(Publishes(r)) = 1
                       /\ \A i \in Publishes(r) :
                             \A f \in both :
                                 \E k \in DOMAIN trace[i][4] :
                                     trace[i][4][k] = <<f, u>>

\* generate_outputs failed for the one URL whose files were collected; the
\* run ended with integrate_with_repo called with the two files.
C30_Witness ==
    \E r \in Runs :
        /\ pc[r] = "done"
        /\ Happened("emit_error", r, UrlRoot)
        /\ \A u \in SeqToSet(Resolved(r)) \ {UrlRoot} : ~Happened("collect", r, u)
        /\ Cardinality(Publishes(r)) = 1
        /\ \A i \in Publishes(r) : Len(trace[i][4]) = 2

(***************************************************************************)
(* C31, as stated: when a run has ended, test_cases.json holds, whole,     *)
(* the test cases of the last URL of the run whose Emit stage completed    *)
(* (generate_outputs returned), and of that URL only.                      *)
(***************************************************************************)
EmitCompleted(r) ==
    SelectSeq(UrlsOf(trace, {"emit"}, r),
              LAMBDA u : ~Happened("emit_error", r, u))

C31_ListingOfLastCompletedEmit ==
    \A r \in Runs :
        (pc[r] = "done" /\ EmitCompleted(r) # <<>>) =>
            listing = Some([whole |-> TRUE,
                            of |-> <<EmitCompleted(r)[Len(EmitCompleted(r))]>>])

\* The events a step has added to the log that tell of test_cases.json
\* being opened for writing.
ListingWrites ==
    SelectSeq(SubSeq(trace', Len(trace) + 1, Len(trace')),
              LAMBDA e : e[1] \in {"listing", "listing_cut"})

(***************************************************************************)
(* C31, amended: test_cases.json is overwritten, never added to, by each   *)
(* URL's Emit stage that gets as far as opening it. A step in which no     *)
(* generate_outputs opened the file leaves it as it was (as the run found  *)
(* it, if none did in the run); a step in which one did leaves in it the   *)
(* test cases of that step's URL alone, whole if json.dump returned,       *)
(* whether or not generate_outputs then completed, and cut short if        *)
(* json.dump raised.                                                       *)
(***************************************************************************)
C31_ListingOfLastWrite ==
    [][LET writes == ListingWrites
       IN IF writes = <<>>
          THEN listing' = listing
          ELSE LET last == writes[Len(writes)]
               IN /\ Len(writes) = 1
                  /\ last[3] = todo[last[2]][1]
                  /\ listing' = Some([whole |-> last[1] = "listing",
                                      of |-> <<last[3]>>])]_vars

\* A run of two URLs has ended: generate_outputs completed for the first,
\* and for the second it raised after test_cases.json was written, which
\* holds the second URL's test cases.
C31_Witness ==
    \E r \in Runs :
        /\ pc[r] = "done"
        /\ Len(Resolved(r)) = 2
        /\ Happened("listing", r, Resolved(r)[1])
        /\ ~Happened("emit_error", r, Resolved(r)[1])
        /\ Happened("listing", r, Resolved(r)[2])
        /\ Happened("emit_error", r, Resolved(r)[2])
        /\ listing = Some([whole |-> TRUE, of |-> <<Resolved(r)[2]>>])

\* The positions of the log at which run r did `kind` with url.
Positions(kind, r, url) == {i \in DOMAIN trace : trace[i] = Ev(kind, r, url)}

\* The number of times any run did `kind` with url.
Times(kind, url) ==
    Cardinality({i \in DOMAIN trace : trace[i][1] = kind /\ trace[i][3] = url})

(***************************************************************************)
(* C32: two runs started by two requests for the same site keep their      *)
(* visited sets, queues and artifact maps apart (a step of one run leaves  *)
(* those of the other as they were), and between them fetch no URL twice   *)
(* and make at most one insert per URL into the page store.                *)
(***************************************************************************)
C32_OneInsertPerUrl ==
    /\ [](\A u \in Pages :
            /\ Times("fetch", u) <= 1
            /\ Times("insert", u) + Times("insert_error", u) <= 1)
    /\ [][\E r \in Requests : \A o \in Requests \ {r} :
            /\ visited'[o] = visited[o]
            /\ to_crawl'[o] = to_crawl[o]
            /\ crawled_pages'[o] = crawled_pages[o]
            /\ files_to_add'[o] = files_to_add[o]]_vars

\* Each of the two runs asked the store whether the start page was stored
\* and began its fetch before the other's insert; both inserted, and the
\* store holds two rows of the page, neither there before the runs.
C32_Witness ==
    \E r, o \in Requests :
        /\ r # o
        /\ \E f \in Positions("fetch", r, UrlRoot),
              g \in Positions("fetch", o, UrlRoot),
              i \in Positions("insert", r, UrlRoot),
              j \in Positions("insert", o, UrlRoot) :
                /\ f < j
                /\ g < i
        /\ Len(RowsOf(pages_db, UrlRoot)) = 2

(***************************************************************************)
(* C21: the paths of a URL's two files are a function of the URL and the   *)
(* start URL, the start URL's being those of "home"; two different URLs    *)
(* resolved in a run have no path in common, so that every URL whose files *)
(* were collected has its own two files in the artifact map.               *)
(***************************************************************************)
C21_PathsDoNotCollide ==
    \A r \in Runs :
        /\ PagePath(start_url[r], start_url[r]) = <<"home">>
        /\ \A u, v \in SeqToSet(Resolved(r)) :
              u # v => TwoFiles(r, u) \cap TwoFiles(r, v) = {}
        /\ \A u \in SeqToSet(Resolved(r)) :
              Happened("collect", r, u) => FilesOf(r, u) = TwoFiles(r, u)

(***************************************************************************)
(* C22: POST /crawl answers with its acknowledgement when it has created   *)
(* the task, before the run has made a step; the answer is never changed   *)
(* by what the run does, so that a run that fails, or in which stages or   *)
(* the publishing fail, leaves the caller with the acknowledgement; and    *)
(* the run, once started, goes on to its end by itself.                    *)
(***************************************************************************)
C22_Acknowledged ==
    \A r \in Runs :
        /\ pc[r] = "idle" => (response[r] = None /\ trace = <<>>)
        /\ pc[r] # "idle" =>
              response[r] = Some(Acknowledgement(start_url[r]))

C22_AnswerKept ==
    \A r \in Runs : response[r] # None => response'[r] = response[r]

C24_NormalizedNonNull ==
    test_cases.normalized =>
        \A i \in DOMAIN test_cases.cases :
            LET tc == test_cases.cases[i]
                given == test_cases.given[i]
                proper(key) == key \in DOMAIN given /\ given[key] # None
            IN /\ {"preconditions", "edgeCases"} \subseteq DOMAIN tc
               /\ tc["preconditions"] # None
               /\ tc["edgeCases"] # None
               /\ tc["preconditions"] =
                    IF proper("preconditions") THEN given["preconditions"]
                    ELSE Some("No specific preconditions")
               /\ tc["edgeCases"] =
                    IF proper("edgeCases") THEN given["edgeCases"]
                    ELSE Some(<<>>)

(***************************************************************************)
(* C25 (as stated): when a call of integrate_with_repo that made repo_dir  *)
(* has returned or raised, the directory does not exist.                   *)
(***************************************************************************)
C25_Terminal == publish.phase \in {"returned", "raised"}

C25_DirectoryAlwaysGone ==
    (C25_Terminal /\ publish.created) => ~publish.dir

(***************************************************************************)
(* C25 (amended): every call of integrate_with_repo that got as far as the *)
(* clone goes through the cleanup before it returns or raises: repo_dir,   *)
(* if it exists then, is removed, and it is left behind only when the      *)
(* removal itself fails, which is answered with a warning and not raised.  *)
(* Whatever the cleanup did, a call in which the clone, the branch, a      *)
(* write or the push failed raises that failure, and a call returns only   *)
(* when all files were written and pushed.  A call refused for its         *)
(* arguments or the missing token makes no directory.                      *)
(***************************************************************************)
C25_CleanupAttempted ==
    C25_Terminal =>
        /\ publish.error = Some("ValueError") =>
              (~publish.created /\ publish.cleanup = "none")
        /\ publish.error # Some("ValueError") =>
              /\ publish.cleanup \in {"nothing", "removed", "warned"}
              /\ publish.created => publish.cleanup \in {"removed", "warned"}
              /\ publish.dir <=> publish.cleanup = "warned"
        /\ publish.phase = "raised" <=> publish.error # None
        /\ publish.phase = "returned" =>
              (publish.pushed /\ publish.written = publish.files)
        /\ publish.error # None => ~publish.pushed

\* The push failed after both files were written; the directory was
\* removed and the failure of the push raised.
C25_Witness ==
    /\ publish.phase = "raised"
    /\ publish.error = Some("push")
    /\ publish.files = 2
    /\ publish.written = 2
    /\ publish.created
    /\ publish.cleanup = "removed"
    /\ ~publish.dir

====
